---- MODULE Spec2Model ----
(***************************************************************************)
(* Remote-synchronised migration and consolidation engine                  *)
(* (migracion40.py, aspirantes40.py, shared_config.py, escuela40.py).      *)
(*                                                                         *)
(* Conventions of the model                                                *)
(*   - SQL NULL / Python None is 0 in integer columns and "" in text       *)
(*     columns; identifiers of rows start at 1.                            *)
(*   - promedio / puntaje are kept in tenths (8.0 is 80).                  *)
(*   - a matricula is the sequence of its character codes.                 *)
(*   - ejecutar_migracion is split at the commits of the control           *)
(*     connection (lines 512 and 533): the job row is durable and visible  *)
(*     between them.                                                       *)
(***************************************************************************)
EXTENDS Integers, Sequences, FiniteSets, TLC

VARIABLES
    conexiones,     \* names held in self.conexiones
    almacen,        \* almacen[base][tabla]: rows seen through the connection of a local store
    migraciones,    \* control table migraciones, index = id
    registros,      \* control table registros_migrados, index = id
    consolidado,    \* control table consolidado_general, index = id
    estadoMig,      \* persistent state tracker of the migration system
    llamada,        \* the ejecutar_migracion call in progress
    reloj,          \* wall clock, in seconds
    generadas,      \* the identifiers _generar_matricula has returned, in order
    remoto,         \* files of the remote host: path -> content
    disco,          \* local files: path -> content
    db_local_temp,  \* GestorBaseDatosAspirantes.db_local_temp
    estadoAsp,      \* persistent state tracker of the aspirants system
    ultimaOp,       \* the last synchronisation call and what it returned
    config,         \* the loaded configuration (immutable)
    confirmado,     \* confirmado[base][tabla]: rows committed to the file of a local store
    proceso,        \* constructions of SistemaMigracion and creations of the control store
    otra,           \* an ejecutar_migracion call in progress in a second session
    ssh,            \* client handles of GestorSSHCompartido
    plantillas,     \* control table plantillas_migracion, index = id
    documento,      \* the state file of the migration tracker, in the temp and the working directory
    arbol,          \* directories and files of the SFTP server
    pila,           \* frames of _crear_directorio_remoto_recursivo, innermost last
    creados,        \* the directories sftp.mkdir has created, in order
    alta,           \* position of _crear_nueva_db_remota and the state of its session
    aspirantesDb,   \* tables aspirantes (by folio) and bitacora_aspirantes of the working copy
    respaldos       \* backup directory of GestorBaseDatos, the store file and the clock

varsMig == <<conexiones, almacen, migraciones, registros, consolidado, estadoMig, llamada, reloj,
             generadas>>

varsSync == <<remoto, disco, db_local_temp, estadoAsp, ultimaOp>>

varsExt == <<proceso, otra, ssh>>

varsDir == <<arbol, pila, creados, alta>>

varsAux == <<varsDir, aspirantesDb, respaldos>>

varsCtl == <<plantillas, documento, varsAux>>

varsBase == <<varsMig, varsSync, config, confirmado, varsExt, plantillas, documento,
              aspirantesDb, respaldos>>

vars == <<varsMig, varsSync, config, confirmado, varsExt, varsCtl>>

(***************************************************************************)
(* Bounds                                                                  *)
(***************************************************************************)
MaxMigraciones == 3     \* job rows created in one behaviour
MaxInvalidas == 1       \* calls with a kind outside TIPOS_MIGRACION
MaxLimpiezas == 2       \* deduplication jobs in one behaviour of SpecLimpieza
MaxAltas == 3           \* identifiers generated in one behaviour of SpecMatricula
MaxReloj == 2           \* seconds the clock advances
MaxOps == 2             \* synchronisation calls in one behaviour of SpecSync
MaxDatos == 1           \* versions of the data written into a store file
MaxArranques == 2       \* constructions of SistemaMigracion in one behaviour
MaxTrabajos == 2        \* job rows created in one behaviour of SpecReinicio
MaxConexiones == 6      \* calls of conectar in one behaviour
MaxGuardados == 2       \* calls of guardar_plantilla_migracion in one behaviour
MaxMutaciones == 2      \* calls of the tracker's operations in one behaviour

(***************************************************************************)
(* Program constants                                                       *)
(***************************************************************************)
TIPOS_MIGRACION ==
    {"estudiantes_a_egresados", "egresados_a_contratados", "aspirantes_a_estudiantes",
     "consolidar_bases", "limpiar_duplicados", "migrar_historico"}

\* RETRY_ATTEMPTS = config.get('retry_attempts', 3)
RETRY_ATTEMPTS == 3

\* sqlite3.Row, the row_factory of every connection, defines no get method:
\* estudiante.get(...) and aspirante.get(...) raise AttributeError.
FilaTieneGet == FALSE

\* Tables of each local store, in sqlite_master order
Tablas(base) ==
    CASE base = "escuela" -> <<"estudiantes", "inscritos", "egresados">>
      [] base = "aspirantes" -> <<"aspirantes">>
      [] base = "inscritos" -> <<"inscritos">>

\* Columns of each table, in PRAGMA table_info order
Columnas(tabla) ==
    CASE tabla = "estudiantes" ->
            <<"id", "matricula", "curp", "rfc", "codigo_postal", "carrera", "semestre",
              "estado_estudiante", "promedio", "fecha_ingreso", "fecha_creacion">>
      [] tabla = "inscritos" -> <<"id", "estudiante_id", "ciclo_escolar">>
      [] tabla = "egresados" -> <<"id", "estudiante_id", "promedio_final">>
      [] tabla = "aspirantes" ->
            <<"id", "curp", "matricula_aspirante", "carrera_solicitada",
              "estado_aprobacion", "puntaje_total", "estado_migracion">>

(***************************************************************************)
(* Helpers                                                                 *)
(***************************************************************************)
Rango(s) == {s[i] : i \in 1..Len(s)}

DictGet(d, k, def) == IF k \in DOMAIN d THEN d[k] ELSE def

RECURSIVE SeqPorId(_)
SeqPorId(S) ==
    IF S = {} THEN <<>>
    ELSE LET m == CHOOSE r \in S : \A q \in S : r.id <= q.id
         IN <<m>> \o SeqPorId(S \ {m})

SigId(S) ==
    IF S = {} THEN 1
    ELSE (CHOOSE r \in S : \A q \in S : r.id >= q.id).id + 1

(***************************************************************************)
(* Control store                                                           *)
(***************************************************************************)
\* variant: the row is inserted in state pendiente
FilaMigracion_Pendiente(tipo, cfg) ==
    [tipo_migracion |-> tipo, estado |-> "pendiente", configuracion |-> cfg,
     total_registros |-> 0, registros_exitosos |-> 0, registros_fallidos |-> 0,
     resultado |-> "", errores |-> "", fecha_fin |-> FALSE, revertida |-> 0]

\* _crear_registro_migracion: INSERT ... 'en_progreso'; the other columns
\* take the defaults of the CREATE TABLE.
FilaMigracion(tipo, cfg) ==
    [tipo_migracion |-> tipo, estado |-> "en_progreso", configuracion |-> cfg,
     total_registros |-> 0, registros_exitosos |-> 0, registros_fallidos |-> 0,
     resultado |-> "", errores |-> "", fecha_fin |-> FALSE, revertida |-> 0]

\* variant: UPDATE migraciones SET <datos> with no WHERE
ActualizarRegistroMigracion_SinWhere(tabla, id, datos) ==
    [i \in DOMAIN tabla |->
        [c \in DOMAIN tabla[i] |-> IF c \in DOMAIN datos THEN datos[c] ELSE tabla[i][c]]]

\* _actualizar_registro_migracion: UPDATE migraciones SET <datos> WHERE id = ?
ActualizarRegistroMigracion(tabla, id, datos) ==
    [i \in DOMAIN tabla |->
        IF i = id
        THEN [c \in DOMAIN tabla[i] |-> IF c \in DOMAIN datos THEN datos[c] ELSE tabla[i][c]]
        ELSE tabla[i]]

\* _registrar_registro_migrado: INSERT INTO registros_migrados
RegistrarRegistroMigrado(regs, mid, datos) ==
    Append(regs,
        [migracion_id |-> mid,
         registro_origen_id |-> DictGet(datos, "registro_origen_id", 0),
         registro_destino_id |-> DictGet(datos, "registro_destino_id", 0),
         tabla_origen |-> DictGet(datos, "tabla_origen", ""),
         tabla_destino |-> DictGet(datos, "tabla_destino", ""),
         datos_origen |-> DictGet(datos, "datos_origen", [razon |-> ""]),
         estado |-> DictGet(datos, "estado", "exitoso"),
         error_mensaje |-> DictGet(datos, "error_mensaje", "")])

\* EstadoPersistenteBase._estado_por_defecto; a timestamp that is None is -1
EstadoPorDefecto ==
    [db_inicializada |-> FALSE, fecha_inicializacion |-> -1, ultima_sincronizacion |-> -1,
     ssh_conectado |-> FALSE, ssh_error |-> "", backups_realizados |-> 0,
     exitosas |-> 0, fallidas |-> 0, total_tiempo |-> 0, migraciones_realizadas |-> 0]

\* EstadoPersistenteBase.marcar_db_inicializada
MarcarDbInicializada(est, ahora) ==
    [est EXCEPT !.db_inicializada = TRUE, !.fecha_inicializacion = ahora]

\* EstadoPersistenteBase.marcar_sincronizacion
MarcarSincronizacion(est, ahora) == [est EXCEPT !.ultima_sincronizacion = ahora]

\* EstadoPersistenteBase.set_ssh_conectado
SetSshConectado(est, conectado, error) ==
    [est EXCEPT !.ssh_conectado = conectado, !.ssh_error = error]

\* EstadoPersistenteBase.registrar_backup
RegistrarBackup(est) == [est EXCEPT !.backups_realizados = @ + 1]

\* EstadoPersistenteBase.registrar_migracion; the clock of the model stands
\* still inside a call of ejecutar_migracion, whose duration is therefore 0
RegistrarMigracion(est, exitosa, tiempo_ejecucion) ==
    [est EXCEPT !.migraciones_realizadas = @ + 1,
                !.exitosas = IF exitosa THEN @ + 1 ELSE @,
                !.fallidas = IF exitosa THEN @ ELSE @ + 1,
                !.total_tiempo = @ + tiempo_ejecucion]

(***************************************************************************)
(* Promote entity: estudiantes -> egresados                                *)
(***************************************************************************)
\* WHERE 1=1 AND ... built from the truthy criteria
CoincideEstudiante(e, criterios) ==
    /\ (DictGet(criterios, "estado_estudiante", "") # ""
            => e.estado_estudiante = criterios.estado_estudiante)
    /\ (DictGet(criterios, "semestre_minimo", 0) # 0
            => e.semestre >= criterios.semestre_minimo)
    /\ (DictGet(criterios, "promedio_minimo", 0) # 0
            => e.promedio >= criterios.promedio_minimo)
    /\ (DictGet(criterios, "fecha_ingreso_maxima", 0) # 0
            => e.fecha_ingreso <= criterios.fecha_ingreso_maxima)

\* variant: no SELECT COUNT(*) FROM egresados before the INSERT, on rows that
\* are dictionaries
PasoEstudiante_SinComprobar(e, mid, acc) ==
    LET esc == acc.alm["escuela"]
        gid == SigId(esc["egresados"])
    IN [acc EXCEPT
            !.alm = [@ EXCEPT !["escuela"] = [@ EXCEPT
                !["egresados"] = @ \cup
                    {[id |-> gid, estudiante_id |-> e.id, promedio_final |-> e.promedio]},
                !["estudiantes"] =
                    {IF r.id = e.id THEN [r EXCEPT !.estado_estudiante = "Egresado"] ELSE r
                        : r \in @}]],
            !.regs = RegistrarRegistroMigrado(@, mid,
                [registro_origen_id |-> e.id, registro_destino_id |-> gid,
                 tabla_origen |-> "estudiantes", tabla_destino |-> "egresados",
                 datos_origen |-> [razon |-> "fila"], estado |-> "exitoso"]),
            !.exitosos = @ + 1]

\* variant: the first record that raises ends the pass
PasoEstudiante_ParaAlFallar(e, mid, acc) ==
    IF acc.fallidos > 0 THEN acc
    ELSE IF \E g \in acc.alm["escuela"]["egresados"] : g.estudiante_id = e.id
    THEN [acc EXCEPT !.detalles = Append(@, [estudiante_id |-> e.id, estado |-> "omitido"])]
    ELSE [acc EXCEPT
            !.fallidos = @ + 1,
            !.regs = RegistrarRegistroMigrado(@, mid,
                [registro_origen_id |-> e.id, tabla_origen |-> "estudiantes",
                 tabla_destino |-> "egresados", estado |-> "fallido",
                 error_mensaje |-> "AttributeError"])]

\* one iteration of the for loop over the selected students
PasoEstudiante(e, mid, acc) ==
    LET esc == acc.alm["escuela"]
    IN  IF \E g \in esc["egresados"] : g.estudiante_id = e.id
        THEN [acc EXCEPT !.detalles = Append(@, [estudiante_id |-> e.id, estado |-> "omitido"])]
        ELSE IF ~FilaTieneGet
        THEN [acc EXCEPT
                !.fallidos = @ + 1,
                !.regs = RegistrarRegistroMigrado(@, mid,
                    [registro_origen_id |-> e.id, tabla_origen |-> "estudiantes",
                     tabla_destino |-> "egresados", estado |-> "fallido",
                     error_mensaje |-> "AttributeError"])]
        ELSE LET gid == SigId(esc["egresados"])
             IN [acc EXCEPT
                !.alm = [@ EXCEPT !["escuela"] = [@ EXCEPT
                    !["egresados"] = @ \cup
                        {[id |-> gid, estudiante_id |-> e.id, promedio_final |-> e.promedio]},
                    !["estudiantes"] =
                        {IF r.id = e.id THEN [r EXCEPT !.estado_estudiante = "Egresado"] ELSE r
                            : r \in @}]],
                !.regs = RegistrarRegistroMigrado(@, mid,
                    [registro_origen_id |-> e.id, registro_destino_id |-> gid,
                     tabla_origen |-> "estudiantes", tabla_destino |-> "egresados",
                     datos_origen |-> [razon |-> "fila"], estado |-> "exitoso"]),
                !.exitosos = @ + 1]

RECURSIVE BucleEstudiantes(_, _, _)
BucleEstudiantes(ests, mid, acc) ==
    IF ests = <<>> THEN acc
    ELSE BucleEstudiantes(Tail(ests), mid, PasoEstudiante(Head(ests), mid, acc))

\* Outcome of a routine: exc = it raised; res = the dict it returned
Levanta(alm, regs, cons, msg) ==
    [exc |-> TRUE, error |-> msg, res |-> [exito |-> FALSE], alm |-> alm, regs |-> regs,
     cons |-> cons, gen |-> <<>>]

Devuelve(alm, regs, cons, res) ==
    [exc |-> FALSE, error |-> "", res |-> res, alm |-> alm, regs |-> regs, cons |-> cons,
     gen |-> <<>>]

MigrarEstudiantesAEgresados(mid, cfg, con, alm, regs, cons) ==
    IF "escuela" \notin con THEN Levanta(alm, regs, cons, "Base de datos de escuela no disponible")
    ELSE
    LET criterios == DictGet(cfg, "criterios", [ninguno |-> 0])
        estudiantes == SeqPorId({e \in alm["escuela"]["estudiantes"] : CoincideEstudiante(e, criterios)})
        fin == BucleEstudiantes(estudiantes, mid,
                    [alm |-> alm, regs |-> regs, exitosos |-> 0, fallidos |-> 0, detalles |-> <<>>])
    IN Devuelve(fin.alm, fin.regs, cons,
            [exito |-> fin.exitosos > 0, total |-> Len(estudiantes),
             exitosos |-> fin.exitosos, fallidos |-> fin.fallidos, detalles |-> fin.detalles])

(***************************************************************************)
(* Text: a string is the sequence of its character codes                   *)
(***************************************************************************)
EsDigito(c) == c >= 48 /\ c <= 57

\* str.upper() on ASCII letters
Mayuscula(c) == IF c >= 97 /\ c <= 122 THEN c - 32 ELSE c

Upper(s) == [i \in 1..Len(s) |-> Mayuscula(s[i])]

\* s[:n]
Primeros(s, n) == IF Len(s) <= n THEN s ELSE SubSeq(s, 1, n)

RECURSIVE Digitos(_)
Digitos(n) == IF n < 10 THEN <<48 + n>> ELSE Digitos(n \div 10) \o <<48 + (n % 10)>>

\* f"{n:0<ancho>d}": zero padded to at least ancho characters, never truncated
Formato(n, ancho) ==
    LET d == Digitos(n)
    IN IF Len(d) >= ancho THEN d ELSE [i \in 1..(ancho - Len(d)) |-> 48] \o d

RECURSIVE Entero(_)
Entero(d) == IF d = <<>> THEN 0 ELSE 10 * Entero(SubSeq(d, 1, Len(d) - 1)) + (d[Len(d)] - 48)

\* re.search(r'\d+$', s): the longest run of digits that ends the string
RECURSIVE DigitosFinales(_)
DigitosFinales(s) ==
    IF s = <<>> \/ ~EsDigito(s[Len(s)]) THEN <<>>
    ELSE DigitosFinales(SubSeq(s, 1, Len(s) - 1)) \o <<s[Len(s)]>>

\* BINARY collation of ORDER BY on TEXT: byte-wise, a proper prefix sorts first
RECURSIVE TextoMenor(_, _)
TextoMenor(a, b) ==
    IF a = <<>> THEN b # <<>>
    ELSE IF b = <<>> THEN FALSE
    ELSE IF Head(a) # Head(b) THEN Head(a) < Head(b)
    ELSE TextoMenor(Tail(a), Tail(b))

\* matricula LIKE '<prefijo>%' (LIKE folds ASCII case)
Like(s, prefijo) ==
    /\ Len(s) >= Len(prefijo)
    /\ Upper(SubSeq(s, 1, Len(prefijo))) = Upper(prefijo)

(***************************************************************************)
(* Promote from intake: aspirantes -> estudiantes                          *)
(***************************************************************************)
\* datetime.now().year
Epoca == [anio |-> 2026]

AnioDe(ahora) == Epoca.anio

\* _generar_matricula.  carrera_solicitada = <<0>> stands for None, on which
\* [:3] raises and the except branch returns the time-derived identifier.
GenerarMatricula(aspirante, estudiantes, ahora) ==
    IF aspirante.carrera_solicitada = <<0>>
    THEN <<69, 83, 84>> \o Formato(ahora % 1000000, 6)
    ELSE
    LET prefijo == Formato(AnioDe(ahora) % 100, 2) \o Upper(Primeros(aspirante.carrera_solicitada, 3))
        similares == {e.matricula : e \in {x \in estudiantes : Like(x.matricula, prefijo)}}
    IN  IF similares = {} THEN prefijo \o Formato(1, 4)
        ELSE LET ultima == CHOOSE m \in similares : \A o \in similares : o = m \/ TextoMenor(o, m)
                 fin == DigitosFinales(ultima)
                 secuencia == IF fin # <<>> THEN Entero(fin) + 1 ELSE 1
             IN prefijo \o Formato(secuencia, 4)

\* INSERT INTO estudiantes under matricula TEXT UNIQUE NOT NULL and curp TEXT UNIQUE
InsertarEstudiante(estudiantes, fila) ==
    IF \E e \in estudiantes : e.matricula = fila.matricula \/ (fila.curp # 0 /\ e.curp = fila.curp)
    THEN [ok |-> FALSE, filas |-> estudiantes]
    ELSE [ok |-> TRUE, filas |-> estudiantes \cup {fila}]

\* lines 731-752: the mapped destination row
DatosEstudiante(id, aspirante, matricula, ahora) ==
    [id |-> id, matricula |-> matricula, curp |-> aspirante.curp, rfc |-> 0,
     codigo_postal |-> 0, carrera |-> aspirante.carrera_solicitada, semestre |-> 1, estado_estudiante |-> "Activo",
     promedio |-> 0, fecha_ingreso |-> ahora, fecha_creacion |-> ahora]

CoincideAspirante(a, criterios) ==
    /\ (DictGet(criterios, "estado_aprobacion", "") # ""
            => a.estado_aprobacion = criterios.estado_aprobacion)
    /\ (DictGet(criterios, "puntaje_minimo", 0) # 0
            => a.puntaje_total >= criterios.puntaje_minimo)

\* lines 731-795, the body of the loop once the duplicate check has passed
AltaAspirante(a, mid, ahora, acc) ==
    LET ests == acc.alm["escuela"]["estudiantes"]
        fila == DatosEstudiante(SigId(ests), a, GenerarMatricula(a, ests, ahora), ahora)
        ins == InsertarEstudiante(ests, fila)
    IN  IF ~ins.ok
        THEN [acc EXCEPT
                !.fallidos = @ + 1,
                !.generadas = Append(@, fila.matricula),
                !.regs = RegistrarRegistroMigrado(@, mid,
                    [registro_origen_id |-> a.id, tabla_origen |-> "aspirantes",
                     tabla_destino |-> "estudiantes", estado |-> "fallido",
                     error_mensaje |-> "IntegrityError"])]
        ELSE [acc EXCEPT
                !.alm = [@ EXCEPT
                    !["escuela"] = [@ EXCEPT !["estudiantes"] = ins.filas],
                    !["aspirantes"] = [@ EXCEPT !["aspirantes"] =
                        {IF r.id = a.id THEN [r EXCEPT !.estado_migracion = "migrado"] ELSE r
                            : r \in @}]],
                !.generadas = Append(@, fila.matricula),
                !.regs = RegistrarRegistroMigrado(@, mid,
                    [registro_origen_id |-> a.id, registro_destino_id |-> fila.id,
                     tabla_origen |-> "aspirantes", tabla_destino |-> "estudiantes",
                     datos_origen |-> [razon |-> "fila"], estado |-> "exitoso"]),
                !.exitosos = @ + 1]

\* one iteration of the for loop over the selected applicants: the first
\* aspirante.get (line 724) raises on a sqlite3.Row
PasoAspirante(a, mid, ahora, acc) ==
    IF ~FilaTieneGet
    THEN [acc EXCEPT
            !.fallidos = @ + 1,
            !.regs = RegistrarRegistroMigrado(@, mid,
                [registro_origen_id |-> a.id, tabla_origen |-> "aspirantes",
                 tabla_destino |-> "estudiantes", estado |-> "fallido",
                 error_mensaje |-> "AttributeError"])]
    ELSE IF \E e \in acc.alm["escuela"]["estudiantes"] :
                \/ (a.curp # 0 /\ e.curp = a.curp)
                \/ (a.matricula_aspirante # <<>> /\ e.matricula = a.matricula_aspirante)
    THEN acc
    ELSE AltaAspirante(a, mid, ahora, acc)

RECURSIVE BucleAspirantes(_, _, _, _)
BucleAspirantes(asps, mid, ahora, acc) ==
    IF asps = <<>> THEN acc
    ELSE BucleAspirantes(Tail(asps), mid, ahora, PasoAspirante(Head(asps), mid, ahora, acc))

MigrarAspirantesAEstudiantes(mid, cfg, con, alm, regs, cons, ahora) ==
    IF "aspirantes" \notin con THEN Levanta(alm, regs, cons, "Base de datos de aspirantes no disponible")
    ELSE IF "escuela" \notin con THEN Levanta(alm, regs, cons, "Base de datos de escuela no disponible")
    ELSE
    LET criterios == DictGet(cfg, "criterios", [ninguno |-> 0])
        aspirantes == SeqPorId({a \in alm["aspirantes"]["aspirantes"] : CoincideAspirante(a, criterios)})
        fin == BucleAspirantes(aspirantes, mid, ahora,
                    [alm |-> alm, regs |-> regs, exitosos |-> 0, fallidos |-> 0, generadas |-> <<>>])
    IN [Devuelve(fin.alm, fin.regs, cons,
            [exito |-> fin.exitosos > 0, total |-> Len(aspirantes),
             exitosos |-> fin.exitosos, fallidos |-> fin.fallidos])
        EXCEPT !.gen = fin.generadas]

(***************************************************************************)
(* Consolidate stores                                                      *)
(***************************************************************************)
\* variant: the key of a consolidated row also carries the job id
ClaveOrigen_PorMigracion(base, tabla, mid) == <<base, tabla, mid>>

\* f"{base_nombre}.{tabla_origen}"
ClaveOrigen(base, tabla, mid) == <<base, tabla>>

\* INSERT INTO consolidado_general under UNIQUE(origen_tabla, origen_id)
InsertarConsolidado(cons, fila) ==
    IF \E i \in DOMAIN cons :
            cons[i].origen_tabla = fila.origen_tabla /\ cons[i].origen_id = fila.origen_id
    THEN [ok |-> FALSE, filas |-> cons]
    ELSE [ok |-> TRUE, filas |-> Append(cons, fila)]

\* lines 907-951: one source record
ConsolidarRegistro(registro, base, tabla, mid, acc) ==
    LET clave == ClaveOrigen(base, tabla, mid)
    IN  IF \E i \in DOMAIN acc.cons :
                acc.cons[i].origen_tabla = clave /\ acc.cons[i].origen_id = registro.id
        THEN acc
        ELSE LET ins == InsertarConsolidado(acc.cons,
                            [origen_tabla |-> clave, origen_id |-> registro.id,
                             tipo_registro |-> base, datos_completos |-> registro])
             IN IF ins.ok
                THEN [acc EXCEPT
                        !.cons = ins.filas,
                        !.exitosos = @ + 1,
                        !.regs = RegistrarRegistroMigrado(@, mid,
                            [registro_origen_id |-> registro.id,
                             registro_destino_id |-> Len(ins.filas),
                             tabla_origen |-> <<base, tabla>>,
                             tabla_destino |-> "consolidado_general", estado |-> "exitoso"]),
                        !.total = @ + 1]
                ELSE [acc EXCEPT
                        !.regs = RegistrarRegistroMigrado(@, mid,
                            [registro_origen_id |-> registro.id,
                             tabla_origen |-> <<base, tabla>>,
                             tabla_destino |-> "consolidado_general", estado |-> "fallido",
                             error_mensaje |-> "IntegrityError"]),
                        !.total = @ + 1]

RECURSIVE BucleRegistros(_, _, _, _, _)
BucleRegistros(regs, base, tabla, mid, acc) ==
    IF regs = <<>> THEN acc
    ELSE BucleRegistros(Tail(regs), base, tabla, mid,
                        ConsolidarRegistro(Head(regs), base, tabla, mid, acc))

\* lines 884-951: the loop over bases_origen; the primary table is the first
\* table of sqlite_master
RECURSIVE BucleBasesOrigen(_, _, _, _, _)
BucleBasesOrigen(bases, mid, con, alm, acc) ==
    IF bases = <<>> THEN acc
    ELSE LET base == Head(bases)
         IN IF base \notin con
            THEN BucleBasesOrigen(Tail(bases), mid, con, alm, acc)
            ELSE LET tabla == Tablas(base)[1]
                 IN BucleBasesOrigen(Tail(bases), mid, con, alm,
                        BucleRegistros(SeqPorId(alm[base][tabla]), base, tabla, mid, acc))

ConsolidarBasesDatos(mid, cfg, con, alm, regs, cons) ==
    LET bases_origen == DictGet(cfg, "bases_origen", <<"aspirantes", "estudiantes", "egresados">>)
        fin == BucleBasesOrigen(bases_origen, mid, con, alm,
                    [cons |-> cons, regs |-> regs, exitosos |-> 0, total |-> 0])
    IN Devuelve(alm, fin.regs, fin.cons,
            [exito |-> fin.exitosos > 0, total |-> fin.total, exitosos |-> fin.exitosos,
             fallidos |-> fin.total - fin.exitosos, tabla_creada |-> "consolidado_general"])

(***************************************************************************)
(* Deduplicate                                                             *)
(***************************************************************************)
\* line 1003: the name contains id, codigo, matricula, curp, rfc, email or unique
EsColumnaUnica(col) ==
    col \in {"id", "matricula", "rfc", "curp", "codigo_postal", "estudiante_id",
             "matricula_aspirante"}

TieneFechaCreacion(tabla) == \E i \in DOMAIN Columnas(tabla) : Columnas(tabla)[i] = "fecha_creacion"

\* NULL of a column: matricula is text, the other key columns are integers
EsNulo(col, valor) == IF col = "matricula" THEN valor = <<>> ELSE valor = 0

\* row a comes before row b in the result of lines 1015-1024:
\* ORDER BY fecha_creacion DESC when the table has the column (rows with the
\* same fecha_creacion in the order the engine picks: desempate), else ORDER BY id DESC
Antes(a, b, tabla, desempate) ==
    IF TieneFechaCreacion(tabla) /\ a.fecha_creacion # b.fecha_creacion
    THEN a.fecha_creacion > b.fecha_creacion
    ELSE IF TieneFechaCreacion(tabla) /\ desempate = "menor" THEN a.id < b.id
    ELSE a.id > b.id

RECURSIVE Ordenar(_, _, _)
Ordenar(filas, tabla, desempate) ==
    IF filas = {} THEN <<>>
    ELSE LET p == CHOOSE a \in filas : \A b \in filas : a = b \/ Antes(a, b, tabla, desempate)
         IN <<p>> \o Ordenar(filas \ {p}, tabla, desempate)

\* lines 1033-1047: DELETE and one registros_migrados row per deleted id
RECURSIVE EliminarDuplicados(_, _, _, _, _, _, _)
EliminarDuplicados(eliminar, base, tabla, col, valor, mid, acc) ==
    IF eliminar = <<>> THEN acc
    ELSE LET eliminar_id == Head(eliminar).id
         IN EliminarDuplicados(Tail(eliminar), base, tabla, col, valor, mid,
                [acc EXCEPT
                    !.alm = [@ EXCEPT ![base] = [@ EXCEPT ![tabla] = {r \in @ : r.id # eliminar_id}]],
                    !.eliminados = @ + 1,
                    !.regs = RegistrarRegistroMigrado(@, mid,
                        [registro_origen_id |-> eliminar_id, tabla_origen |-> tabla,
                         estado |-> "exitoso",
                         datos_origen |-> [razon |-> "duplicado", campo |-> col, valor |-> valor]])])

\* variant: only the row after the survivor is deleted
PasoDuplicado_SoloUno(dup, base, tabla, col, mid, desempate, acc) ==
    LET valor == dup[1]
        seleccion == IF EsNulo(col, valor) THEN {}
                     ELSE {r \in acc.alm[base][tabla] : r[col] = valor}
        filas == Ordenar(seleccion, tabla, desempate)
        contado == [acc EXCEPT !.analizados = @ + dup[2]]
    IN  IF Len(filas) > 1
        THEN EliminarDuplicados(<<filas[2]>>, base, tabla, col, valor, mid, contado)
        ELSE contado

\* lines 1011-1047: one (valor, cnt) of the GROUP BY ... HAVING cnt > 1;
\* WHERE col = NULL selects nothing
PasoDuplicado(dup, base, tabla, col, mid, desempate, acc) ==
    LET valor == dup[1]
        seleccion == IF EsNulo(col, valor) THEN {}
                     ELSE {r \in acc.alm[base][tabla] : r[col] = valor}
        filas == Ordenar(seleccion, tabla, desempate)
        contado == [acc EXCEPT !.analizados = @ + dup[2]]
    IN  IF Len(filas) > 1
        THEN EliminarDuplicados(Tail(filas), base, tabla, col, valor, mid, contado)
        ELSE contado

RECURSIVE BucleDuplicados(_, _, _, _, _, _, _)
BucleDuplicados(dups, base, tabla, col, mid, desempate, acc) ==
    IF dups = {} THEN acc
    ELSE LET d == CHOOSE x \in dups : TRUE
         IN BucleDuplicados(dups \ {d}, base, tabla, col, mid, desempate,
                PasoDuplicado(d, base, tabla, col, mid, desempate, acc))

\* variant: HAVING cnt > 2
Duplicados_MasDeDos(filas, col) ==
    {<<v, Cardinality({r \in filas : r[col] = v})>> :
        v \in {x \in {r[col] : r \in filas} : Cardinality({r \in filas : r[col] = x}) > 2}}

\* line 1005: SELECT col, COUNT(*) ... GROUP BY col HAVING cnt > 1 (NULLs form one group)
Duplicados(filas, col) ==
    {<<v, Cardinality({r \in filas : r[col] = v})>> :
        v \in {x \in {r[col] : r \in filas} : Cardinality({r \in filas : r[col] = x}) > 1}}

RECURSIVE BucleColumnas(_, _, _, _, _, _)
BucleColumnas(cols, base, tabla, mid, desempate, acc) ==
    IF cols = <<>> THEN acc
    ELSE LET col == Head(cols)
         IN BucleColumnas(Tail(cols), base, tabla, mid, desempate,
                IF EsColumnaUnica(col)
                THEN BucleDuplicados(Duplicados(acc.alm[base][tabla], col),
                                     base, tabla, col, mid, desempate, acc)
                ELSE acc)

RECURSIVE BucleTablas(_, _, _, _, _)
BucleTablas(tablas, base, mid, desempate, acc) ==
    IF tablas = <<>> THEN acc
    ELSE BucleTablas(Tail(tablas), base, mid, desempate,
            BucleColumnas(Columnas(Head(tablas)), base, Head(tablas), mid, desempate, acc))

RECURSIVE BucleBases(_, _, _, _, _)
BucleBases(bases, mid, con, desempate, acc) ==
    IF bases = <<>> THEN acc
    ELSE BucleBases(Tail(bases), mid, con, desempate,
            IF Head(bases) \notin con THEN acc
            ELSE BucleTablas(Tablas(Head(bases)), Head(bases), mid, desempate, acc))

\* variant: the rows are deleted and none is logged
LimpiarDuplicados_SinBitacora(mid, cfg, con, alm, regs, cons, desempate) ==
    LET bases_a_limpiar == DictGet(cfg, "bases", <<"escuela">>)
        fin == BucleBases(bases_a_limpiar, mid, con, desempate,
                    [alm |-> alm, regs |-> regs, eliminados |-> 0, analizados |-> 0])
    IN Devuelve(fin.alm, regs, cons,
            [exito |-> fin.eliminados > 0, total_analizados |-> fin.analizados,
             duplicados_eliminados |-> fin.eliminados,
             espacio_liberado_estimado |-> fin.eliminados * 1024])

\* _limpiar_duplicados, lines 969-1063
LimpiarDuplicados(mid, cfg, con, alm, regs, cons, desempate) ==
    LET bases_a_limpiar == DictGet(cfg, "bases", <<"escuela">>)
        fin == BucleBases(bases_a_limpiar, mid, con, desempate,
                    [alm |-> alm, regs |-> regs, eliminados |-> 0, analizados |-> 0])
    IN Devuelve(fin.alm, fin.regs, cons,
            [exito |-> fin.eliminados > 0, total_analizados |-> fin.analizados,
             duplicados_eliminados |-> fin.eliminados,
             espacio_liberado_estimado |-> fin.eliminados * 1024])

(***************************************************************************)
(* Historical import                                                       *)
(***************************************************************************)
MigrarHistorico(mid, cfg, con, alm, regs, cons) ==
    Devuelve(alm, regs, cons, [exito |-> TRUE, total |-> 0, exitosos |-> 0, fallidos |-> 0])

(***************************************************************************)
(* ejecutar_migracion                                                      *)
(***************************************************************************)
\* the if/elif chain of lines 443-456; _migrar_egresados_a_contratados is not
\* defined by the class, so that branch raises AttributeError
Rutina(tipo, mid, cfg, con, alm, regs, cons, ahora, desempate) ==
    CASE tipo = "estudiantes_a_egresados" -> MigrarEstudiantesAEgresados(mid, cfg, con, alm, regs, cons)
      [] tipo = "aspirantes_a_estudiantes" -> MigrarAspirantesAEstudiantes(mid, cfg, con, alm, regs, cons, ahora)
      [] tipo = "consolidar_bases" -> ConsolidarBasesDatos(mid, cfg, con, alm, regs, cons)
      [] tipo = "limpiar_duplicados" -> LimpiarDuplicados(mid, cfg, con, alm, regs, cons, desempate)
      [] tipo = "migrar_historico" -> MigrarHistorico(mid, cfg, con, alm, regs, cons)
      [] OTHER -> Levanta(alm, regs, cons, "AttributeError")

\* the stores whose connection a routine commits when it returns: lines 667,
\* 809-810 and 1050-1052 (consolidar_bases commits the control connection only)
BasesConfirmadas(tipo, cfg, con) ==
    CASE tipo = "estudiantes_a_egresados" -> {"escuela"}
      [] tipo = "aspirantes_a_estudiantes" -> {"aspirantes", "escuela"}
      [] tipo = "limpiar_duplicados" ->
            {b \in Rango(DictGet(cfg, "bases", <<"escuela">>)) : b \in con}
      [] OTHER -> {}

\* conexion.commit(): what the connection sees becomes the content of the file
Confirmar(conf, alm, bases) ==
    [b \in DOMAIN conf |-> IF b \in bases THEN alm[b] ELSE conf[b]]

\* GestorSSHCompartido before any connection: _ssh_client = _sftp_client = None
\* (0).  A handle is the number of the SSHClient that was built for it; abiertas
\* counts the SSHClient objects built, activo is transport.is_active() of the
\* current client, habilitado tells paramiko, host and enabled are all set,
\* n counts the calls of conectar and ret is what the last one returned
SinSesion == [cliente |-> 0, sftp |-> 0, activo |-> FALSE, abiertas |-> 0,
              habilitado |-> TRUE, n |-> 0, ret |-> FALSE]

SinLlamada == [pc |-> "inactiva", id |-> 0, tipo |-> "", cfg |-> [ninguno |-> 0],
               exc |-> FALSE, error |-> "", res |-> [exito |-> FALSE]]

\* Job configurations offered to ejecutar_migracion; [ninguno |-> 0] is a
\* configuration without any key the routines read
Configs(tipo) ==
    CASE tipo = "estudiantes_a_egresados" ->
            {[criterios |-> [estado_estudiante |-> "Activo", semestre_minimo |-> 8, promedio_minimo |-> 80]],
             [criterios |-> [estado_estudiante |-> "Activo"]]}
      [] tipo = "aspirantes_a_estudiantes" ->
            {[criterios |-> [estado_aprobacion |-> "Aprobado", puntaje_minimo |-> 70]]}
      [] tipo = "consolidar_bases" ->
            {[bases_origen |-> <<"escuela", "aspirantes">>], [ninguno |-> 0]}
      [] tipo = "limpiar_duplicados" ->
            {[bases |-> <<"escuela", "aspirantes">>], [ninguno |-> 0]}
      [] OTHER -> {[ninguno |-> 0]}

\* lines 428-438: validation and creation of the job row, by the session whose
\* call is ll (ll2 is that call after the step)
CrearRegistroDe(ll, ll2, tipo, cfg) ==
    /\ ll.pc = "inactiva"
    /\ tipo \in TIPOS_MIGRACION
    /\ "migracion" \in conexiones
    /\ Len(migraciones) < MaxMigraciones
    /\ migraciones' = Append(migraciones, FilaMigracion(tipo, cfg))
    /\ ll2 = [SinLlamada EXCEPT !.pc = "creada", !.id = Len(migraciones) + 1,
                                !.tipo = tipo, !.cfg = cfg]
    /\ UNCHANGED <<conexiones, almacen, registros, consolidado, estadoMig, reloj, generadas,
                   varsSync, config, varsCtl, confirmado, proceso, ssh>>

CrearRegistro(tipo, cfg) == CrearRegistroDe(llamada, llamada', tipo, cfg) /\ UNCHANGED otra

\* lines 432-433 and 477-490: a kind outside the list raises before any row exists
TipoInvalido ==
    /\ llamada.pc = "inactiva"
    /\ estadoMig.migraciones_realizadas < MaxMigraciones + MaxInvalidas
    /\ estadoMig.fallidas - Cardinality({i \in DOMAIN migraciones : migraciones[i].estado = "fallida"})
            < MaxInvalidas
    /\ estadoMig' = RegistrarMigracion(estadoMig, FALSE, 0)
    /\ UNCHANGED <<conexiones, almacen, migraciones, registros, consolidado, llamada, reloj, generadas, varsSync, config, varsCtl, confirmado, varsExt>>

\* lines 440-456: the routine of the kind
EjecutarRutinaDe(ll, ll2) ==
    /\ ll.pc = "creada"
    /\ \E desempate \in {"menor", "mayor"} :
       LET r == Rutina(ll.tipo, ll.id, ll.cfg, conexiones, almacen, registros,
                       consolidado, reloj, desempate)
       IN /\ almacen' = r.alm
          /\ registros' = r.regs
          /\ consolidado' = r.cons
          /\ generadas' = generadas \o r.gen
          /\ confirmado' = Confirmar(confirmado, r.alm,
                                IF r.exc THEN {}
                                ELSE BasesConfirmadas(ll.tipo, ll.cfg, conexiones))
          /\ ll2 = [ll EXCEPT !.pc = "ejecutada", !.exc = r.exc, !.error = r.error, !.res = r.res]
    /\ UNCHANGED <<conexiones, migraciones, estadoMig, reloj, varsSync, config, varsCtl, proceso, ssh>>

EjecutarRutina == EjecutarRutinaDe(llamada, llamada') /\ UNCHANGED otra

\* variant: the except clause of lines 477-490 without the update of the row
SellarRegistroDe_SinSellarAlFallar(ll, ll2) ==
    /\ ll.pc = "ejecutada"
    /\ migraciones' =
        IF ll.exc
        THEN migraciones
        ELSE ActualizarRegistroMigracion(migraciones, ll.id,
                [estado |-> IF ll.res.exito THEN "completada" ELSE "fallida",
                 fecha_fin |-> TRUE,
                 resultado |-> "resultado",
                 total_registros |-> DictGet(ll.res, "total", 0),
                 registros_exitosos |-> DictGet(ll.res, "exitosos", 0),
                 registros_fallidos |-> DictGet(ll.res, "fallidos", 0)])
    /\ estadoMig' = RegistrarMigracion(estadoMig, ~ll.exc /\ ll.res.exito, 0)
    /\ ll2 = SinLlamada
    /\ UNCHANGED <<conexiones, almacen, registros, consolidado, reloj, generadas, varsSync,
                   config, varsCtl, confirmado, proceso, ssh>>

\* lines 458-475 (normal return) and 477-490 (exception)
SellarRegistroDe(ll, ll2) ==
    /\ ll.pc = "ejecutada"
    /\ migraciones' =
        IF ll.exc
        THEN ActualizarRegistroMigracion(migraciones, ll.id,
                [estado |-> "fallida", fecha_fin |-> TRUE,
                 resultado |-> "error", errores |-> ll.error])
        ELSE ActualizarRegistroMigracion(migraciones, ll.id,
                [estado |-> IF ll.res.exito THEN "completada" ELSE "fallida",
                 fecha_fin |-> TRUE,
                 resultado |-> "resultado",
                 total_registros |-> DictGet(ll.res, "total", 0),
                 registros_exitosos |-> DictGet(ll.res, "exitosos", 0),
                 registros_fallidos |-> DictGet(ll.res, "fallidos", 0)])
    /\ estadoMig' = RegistrarMigracion(estadoMig, ~ll.exc /\ ll.res.exito, 0)
    /\ ll2 = SinLlamada
    /\ UNCHANGED <<conexiones, almacen, registros, consolidado, reloj, generadas, varsSync,
                   config, varsCtl, confirmado, proceso, ssh>>

SellarRegistro == SellarRegistroDe(llamada, llamada') /\ UNCHANGED otra

\* the routine ran to its last line and the commit of the store connection
\* raised (lines 667, 809-810, 1050-1052): the writes stay in the open
\* transaction of the connection, the exception reaches line 477
FalloAlConfirmar ==
    /\ llamada.pc = "creada"
    /\ BasesConfirmadas(llamada.tipo, llamada.cfg, conexiones) # {}
    /\ \E desempate \in {"menor", "mayor"} :
       LET r == Rutina(llamada.tipo, llamada.id, llamada.cfg, conexiones, almacen, registros,
                       consolidado, reloj, desempate)
       IN /\ ~r.exc
          /\ almacen' = r.alm
          /\ registros' = r.regs
          /\ consolidado' = r.cons
          /\ generadas' = generadas \o r.gen
          /\ llamada' = [llamada EXCEPT !.pc = "ejecutada", !.exc = TRUE,
                                        !.error = "OperationalError", !.res = [exito |-> FALSE]]
    /\ UNCHANGED <<conexiones, migraciones, estadoMig, reloj, varsSync, config, varsCtl, confirmado,
                   varsExt>>

\* lines 436 and 494: with no control connection _crear_registro_migracion
\* raises KeyError before a row exists; line 489 counts the failure
SinConexionDeControl(tipo) ==
    /\ llamada.pc = "inactiva"
    /\ tipo \in TIPOS_MIGRACION
    /\ "migracion" \notin conexiones
    /\ estadoMig.migraciones_realizadas < MaxTrabajos
    /\ estadoMig' = RegistrarMigracion(estadoMig, FALSE, 0)
    /\ UNCHANGED <<conexiones, almacen, migraciones, registros, consolidado, llamada, reloj,
                   generadas, varsSync, config, varsCtl, confirmado, varsExt>>

(***************************************************************************)
(* Files                                                                   *)
(***************************************************************************)
\* Content of a file: empty (0 bytes) or a database with or without the
\* primary table; completa tells whether it has the secondary tables, the
\* indexes and the configuration rows of _inicializar_estructura_db_completa;
\* datos tells versions of the data apart
Vacio == [clase |-> "vacio", tabla |-> FALSE, completa |-> FALSE, datos |-> 0]

\* a database as _inicializar_estructura_db_completa builds it (tabla), or one
\* without the tables of the system
BD(tabla, datos) == [clase |-> "db", tabla |-> tabla, completa |-> tabla, datos |-> datos]

\* a database that holds the table aspirantes of lines 420-433 and nothing else
\* of the schema
BDBasica(datos) == [clase |-> "db", tabla |-> TRUE, completa |-> FALSE, datos |-> datos]

Ausente == [clase |-> "ausente", tabla |-> FALSE, completa |-> FALSE, datos |-> 0]

\* os.path.getsize(path) > 0
TieneBytes(c) == c.clase = "db"

\* a path: sufijo is the timestamp inside a name built with one, respaldo the
\* timestamp of a ".backup_<timestamp>" ending; -1 where the name has none
Ruta(nombre) == [nombre |-> nombre, sufijo |-> -1, respaldo |-> -1]

RutaCon(nombre, ts) == [nombre |-> nombre, sufijo |-> ts, respaldo |-> -1]

\* f"{ruta}.backup_{timestamp}"
Respaldo(ruta, ts) == [ruta EXCEPT !.respaldo = ts]

NoRuta == Ruta("None")

Existe(fs, r) == r \in DOMAIN fs

Leer(fs, r) == IF r \in DOMAIN fs THEN fs[r] ELSE Ausente

Escribir(fs, r, c) == (r :> c) @@ fs

Borrar(fs, r) == [x \in (DOMAIN fs) \ {r} |-> fs[x]]

\* remote_paths[<base>_db] / db_path_remoto
RutaRemota(base) == Ruta(base)

\* temp_<base>.db of sincronizar_bases_datos
ArchivoLocal(base) ==
    CASE base = "escuela" -> Ruta("temp_escuela")
      [] base = "aspirantes" -> Ruta("temp_aspirantes")
      [] base = "inscritos" -> Ruta("temp_inscritos")

BasesSincronizadas == <<"escuela", "aspirantes", "inscritos">>

(***************************************************************************)
(* Sync manager of the aspirants store                                     *)
(***************************************************************************)
\* _verificar_estructura_basica
VerificarEstructuraBasica(fs, r) ==
    Existe(fs, r) /\ fs[r].clase = "db" /\ fs[r].tabla

\* _inicializar_estructura_db: CREATE TABLE aspirantes when missing; errors are
\* logged and swallowed
InicializarEstructuraDb(fs, r) ==
    IF Existe(fs, r) /\ fs[r].clase \in {"db", "vacio"} /\ ~fs[r].tabla
    THEN Escribir(fs, r, BDBasica(fs[r].datos))
    ELSE fs

Salida(fs, rem, dbl, est, exito, verificacion) ==
    [disco |-> fs, remoto |-> rem, dbl |-> dbl, est |-> est, exito |-> exito,
     verificacion |-> verificacion]

\* _crear_nueva_db_remota, entered with the local files fs and db_local_temp = tmp
CrearNuevaDbRemota(fs, tmp, fallo, verificacion) ==
    LET nueva == RutaCon("aspirantes_nueva", reloj)
        rr == RutaRemota("aspirantes")
        fs2 == IF Existe(fs, nueva) THEN fs ELSE Escribir(fs, nueva, BD(TRUE, 0))
    IN  IF fallo = "crear_estructura"
        THEN Salida(fs, remoto, tmp, estadoAsp, FALSE, verificacion)
        ELSE IF fallo \in {"crear_conectar", "crear_sftp", "crear_put"}
        THEN Salida(fs2, remoto, tmp, estadoAsp, FALSE, verificacion)
        ELSE Salida(fs2, Escribir(remoto, rr, fs2[nueva]), nueva,
                    SetSshConectado(MarcarSincronizacion(MarcarDbInicializada(estadoAsp, reloj), reloj),
                                    TRUE, ""),
                    TRUE, verificacion)

\* sincronizar_desde_remoto.  fallo names the step the environment makes fail
\* (at most one per call); parcial tells whether a failed transfer left an
\* empty local file behind
SincronizarDesdeRemoto(fallo, parcial) ==
    LET tmp == RutaCon("aspirantes_temp", reloj)
        rr == RutaRemota("aspirantes")
        resto == IF parcial THEN Escribir(disco, tmp, Vacio) ELSE disco
    IN  IF fallo \in {"conectar", "sftp"}
        THEN Salida(disco, remoto, db_local_temp, estadoAsp, FALSE, "sin_descarga")
        ELSE IF fallo = "espacio"
        THEN Salida(disco, remoto, tmp, estadoAsp, FALSE, "sin_descarga")
        ELSE IF fallo = "get"
        THEN Salida(resto, remoto, tmp, SetSshConectado(estadoAsp, FALSE, "error"), FALSE,
                    "sin_descarga")
        ELSE IF ~Existe(remoto, rr)
        THEN CrearNuevaDbRemota(resto, tmp, fallo, "ausente")
        ELSE LET fs1 == Escribir(disco, tmp, remoto[rr])
             IN IF TieneBytes(fs1[tmp])
                THEN LET estructura == VerificarEstructuraBasica(fs1, tmp)
                         \* the CREATE of _inicializar_estructura_db can fail; its
                         \* except clause logs the error and returns normally
                         fs2 == IF estructura \/ fallo = "crear_estructura" THEN fs1
                                ELSE InicializarEstructuraDb(fs1, tmp)
                         e1 == IF estadoAsp.db_inicializada THEN estadoAsp
                               ELSE MarcarDbInicializada(estadoAsp, reloj)
                     IN Salida(fs2, remoto, tmp,
                               SetSshConectado(MarcarSincronizacion(e1, reloj), TRUE, ""),
                               TRUE, IF estructura THEN "ok" ELSE "sin_tabla")
                ELSE CrearNuevaDbRemota(fs1, tmp, fallo, "vacio")

\* variant: the push without the test of lines 448-450; sftp.put raises on
\* the missing local file, after the rename
SincronizarHaciaRemoto_SinComprobar(fallo) ==
    LET rr == RutaRemota("aspirantes")
        destino == Respaldo(rr, reloj)
        renombra == /\ config.auto_backup
                    /\ fallo # "rename"
                    /\ Existe(remoto, rr)
                    /\ ~Existe(remoto, destino)
        rem1 == IF renombra THEN Escribir(Borrar(remoto, rr), destino, remoto[rr]) ELSE remoto
        est1 == IF renombra THEN RegistrarBackup(estadoAsp) ELSE estadoAsp
    IN  IF fallo \in {"conectar", "sftp"}
        THEN Salida(disco, remoto, db_local_temp, estadoAsp, FALSE, "sin_subida")
        ELSE IF fallo = "put" \/ db_local_temp = NoRuta \/ ~Existe(disco, db_local_temp)
        THEN Salida(disco, rem1, db_local_temp, est1, FALSE, "sin_subida")
        ELSE Salida(disco, Escribir(rem1, rr, disco[db_local_temp]), db_local_temp,
                    MarcarSincronizacion(est1, reloj), TRUE, "subida")

\* variant: the push with the rename outside its own try block, so that a
\* failed backup reaches the outer except clause
SincronizarHaciaRemoto_RespaldoAborta(fallo) ==
    LET rr == RutaRemota("aspirantes")
        destino == Respaldo(rr, reloj)
        renombra == /\ config.auto_backup
                    /\ fallo # "rename"
                    /\ Existe(remoto, rr)
                    /\ ~Existe(remoto, destino)
        rem1 == IF renombra THEN Escribir(Borrar(remoto, rr), destino, remoto[rr]) ELSE remoto
        est1 == IF renombra THEN RegistrarBackup(estadoAsp) ELSE estadoAsp
    IN  IF db_local_temp = NoRuta \/ ~Existe(disco, db_local_temp)
        THEN Salida(disco, remoto, db_local_temp, estadoAsp, FALSE, "sin_copia")
        ELSE IF fallo \in {"conectar", "sftp"}
        THEN Salida(disco, remoto, db_local_temp, estadoAsp, FALSE, "sin_subida")
        ELSE IF fallo = "put" \/ (config.auto_backup /\ ~renombra)
        THEN Salida(disco, rem1, db_local_temp, est1, FALSE, "sin_subida")
        ELSE Salida(disco, Escribir(rem1, rr, disco[db_local_temp]), db_local_temp,
                    MarcarSincronizacion(est1, reloj), TRUE, "subida")

\* sincronizar_hacia_remoto.  SFTP rename fails when the source is missing or
\* the target exists
SincronizarHaciaRemoto(fallo) ==
    LET rr == RutaRemota("aspirantes")
        destino == Respaldo(rr, reloj)
        renombra == /\ config.auto_backup
                    /\ fallo # "rename"
                    /\ Existe(remoto, rr)
                    /\ ~Existe(remoto, destino)
        rem1 == IF renombra THEN Escribir(Borrar(remoto, rr), destino, remoto[rr]) ELSE remoto
        est1 == IF renombra THEN RegistrarBackup(estadoAsp) ELSE estadoAsp
    IN  IF db_local_temp = NoRuta \/ ~Existe(disco, db_local_temp)
        THEN Salida(disco, remoto, db_local_temp, estadoAsp, FALSE, "sin_copia")
        ELSE IF fallo \in {"conectar", "sftp"}
        THEN Salida(disco, remoto, db_local_temp, estadoAsp, FALSE, "sin_subida")
        ELSE IF fallo = "put"
        THEN Salida(disco, rem1, db_local_temp, est1, FALSE, "sin_subida")
        ELSE Salida(disco, Escribir(rem1, rr, disco[db_local_temp]), db_local_temp,
                    MarcarSincronizacion(est1, reloj), TRUE, "subida")

\* what a synchronisation call did: the handlers connect and transfer once per
\* call (no loop around conectar, sftp.get or sftp.put), so intentos is 1
Operacion(n, op, base, exito, verificacion) ==
    [n |-> n, op |-> op, base |-> base, exito |-> exito, verificacion |-> verificacion,
     fallo |-> "ninguno", intentos |-> 1]

FallosPull == {"ninguno", "conectar", "sftp", "espacio", "get", "crear_estructura",
               "crear_conectar", "crear_put"}

PullAspirantes(fallo, parcial) ==
    /\ ultimaOp.n < MaxOps
    /\ LET r == SincronizarDesdeRemoto(fallo, parcial)
       IN /\ disco' = r.disco
          /\ remoto' = r.remoto
          /\ db_local_temp' = r.dbl
          /\ estadoAsp' = r.est
          /\ ultimaOp' = [Operacion(ultimaOp.n + 1, "sincronizar_desde_remoto", "aspirantes",
                                    r.exito, [aspirantes |-> r.verificacion])
                           EXCEPT !.fallo = fallo]
    /\ UNCHANGED <<varsMig, config, varsCtl, confirmado, varsExt>>

FallosPush == {"ninguno", "conectar", "sftp", "rename", "put"}

PushAspirantes(fallo) ==
    /\ ultimaOp.n < MaxOps
    /\ LET r == SincronizarHaciaRemoto(fallo)
       IN /\ disco' = r.disco
          /\ remoto' = r.remoto
          /\ db_local_temp' = r.dbl
          /\ estadoAsp' = r.est
          /\ ultimaOp' = [Operacion(ultimaOp.n + 1, "sincronizar_hacia_remoto", "aspirantes",
                                    r.exito, [aspirantes |-> r.verificacion])
                           EXCEPT !.fallo = fallo]
    /\ UNCHANGED <<varsMig, config, varsCtl, confirmado, varsExt>>

(***************************************************************************)
(* Sync of the migration system                                            *)
(***************************************************************************)
\* _descargar_base_datos for one store: the local file is copied to
\* <local>.backup_<timestamp>, then sftp.get writes over the local file.
\* fallo = base makes the transfer of that store fail
DescargarBaseDatos(base, fs, fallo, parcial) ==
    LET local == ArchivoLocal(base)
        rr == RutaRemota(base)
        fs1 == IF Existe(fs, local) THEN Escribir(fs, Respaldo(local, reloj), fs[local]) ELSE fs
        resto == IF parcial THEN Escribir(fs1, local, Vacio) ELSE fs1
    IN  IF fallo = base THEN [disco |-> resto, resultado |-> "error"]
        ELSE IF ~Existe(remoto, rr) THEN [disco |-> resto, resultado |-> "ausente"]
        ELSE LET fs2 == Escribir(fs1, local, remoto[rr])
             IN [disco |-> fs2, resultado |-> IF TieneBytes(fs2[local]) THEN "ok" ELSE "vacio"]

RECURSIVE BucleDescargas(_, _, _, _)
BucleDescargas(bases, acc, fallo, parcial) ==
    IF bases = <<>> THEN acc
    ELSE LET d == DescargarBaseDatos(Head(bases), acc.disco, fallo, parcial)
         IN BucleDescargas(Tail(bases),
                [disco |-> d.disco,
                 resultados |-> (Head(bases) :> d.resultado) @@ acc.resultados],
                fallo, parcial)

\* _conectar_bases_datos_locales
ConectarBasesDatosLocales(con, fs) ==
    con \cup {b \in Rango(BasesSincronizadas) : Existe(fs, ArchivoLocal(b))}

FallosPullMig == {"ninguno", "conectar", "sftp"} \cup Rango(BasesSincronizadas)

\* sincronizar_bases_datos on the connections con, the tracker est and the
\* local files fs
ResultadoSincronizacion(con, est, fs, fallo, parcial) ==
    IF fallo \in {"conectar", "sftp"}
    THEN [disco |-> fs, est |-> est, con |-> con, exito |-> FALSE, reconectadas |-> {},
          resultados |-> [b \in Rango(BasesSincronizadas) |-> "sin_descarga"]]
    ELSE LET fin == BucleDescargas(BasesSincronizadas,
                        [disco |-> fs, resultados |-> <<>>], fallo, parcial)
         IN [disco |-> fin.disco,
             est |-> SetSshConectado(MarcarSincronizacion(est, reloj), TRUE, ""),
             con |-> ConectarBasesDatosLocales(con, fin.disco),
             exito |-> TRUE,
             reconectadas |-> ConectarBasesDatosLocales({}, fin.disco),
             resultados |-> fin.resultados]

\* a connection that is replaced loses the writes it had not committed
Reconectar(alm, conf, bases) ==
    [b \in DOMAIN alm |-> IF b \in bases THEN conf[b] ELSE alm[b]]

\* sincronizar_bases_datos called by the session that owns the connections;
\* the script of a session runs in one thread, so the call comes between two
\* calls of ejecutar_migracion
SincronizarBasesDatos(fallo, parcial) ==
    /\ ultimaOp.n < MaxOps
    /\ llamada.pc = "inactiva"
    /\ LET r == ResultadoSincronizacion(conexiones, estadoMig, disco, fallo, parcial)
       IN /\ disco' = r.disco
          /\ estadoMig' = r.est
          /\ conexiones' = r.con
          /\ almacen' = Reconectar(almacen, confirmado, r.reconectadas)
          /\ ultimaOp' = [Operacion(ultimaOp.n + 1, "sincronizar_bases_datos", "todas", r.exito,
                                    r.resultados)
                           EXCEPT !.fallo = fallo]
    /\ UNCHANGED <<migraciones, registros, consolidado, llamada, reloj, generadas,
                   remoto, db_local_temp, estadoAsp, config, varsCtl, confirmado, varsExt>>

\* sincronizar_bases_datos run by the SistemaMigracion of another session
\* (sync_on_start, line 120): it writes the same temp_<base>.db files of the
\* working directory and opens connections of its own; nothing in lines
\* 280-327 looks at the jobs of the control store
SincronizarEnOtraSesion(fallo, parcial) ==
    /\ ultimaOp.n < MaxOps
    /\ LET r == ResultadoSincronizacion({}, estadoMig, disco, fallo, parcial)
       IN /\ disco' = r.disco
          /\ ultimaOp' = [Operacion(ultimaOp.n + 1, "sincronizar_bases_datos", "todas", r.exito,
                                    r.resultados)
                           EXCEPT !.fallo = fallo]
    /\ UNCHANGED <<varsMig, remoto, db_local_temp, estadoAsp, config, varsCtl, confirmado, varsExt>>

FallosPushMig == {"ninguno", "conectar", "sftp", "get", "put"}

\* subir_base_datos(nombre_base, temp_<nombre_base>.db): sftp.get(ruta_remota,
\* backup_remoto) writes the remote file into a LOCAL file named like the backup
SubirBaseDatos(base, fallo) ==
    /\ ultimaOp.n < MaxOps
    /\ LET local == ArchivoLocal(base)
           rr == RutaRemota(base)
           copia == Existe(remoto, rr) /\ fallo # "get"
           fs1 == IF copia THEN Escribir(disco, Respaldo(rr, reloj), remoto[rr])
                  ELSE disco
           op(exito, v) == [Operacion(ultimaOp.n + 1, "subir_base_datos", base, exito,
                                      [x \in {base} |-> v])
                             EXCEPT !.fallo = fallo]
       IN IF ~Existe(disco, local)
          THEN /\ ultimaOp' = op(FALSE, "sin_copia")
               /\ UNCHANGED <<disco, remoto>>
          ELSE IF fallo \in {"conectar", "sftp"}
          THEN /\ ultimaOp' = op(FALSE, "sin_subida")
               /\ UNCHANGED <<disco, remoto>>
          ELSE IF fallo = "put"
          THEN /\ disco' = fs1
               /\ ultimaOp' = op(FALSE, "sin_subida")
               /\ UNCHANGED remoto
          ELSE /\ disco' = fs1
               /\ remoto' = Escribir(remoto, rr, disco[local])
               /\ ultimaOp' = op(TRUE, "subida")
    /\ UNCHANGED <<varsMig, db_local_temp, estadoAsp, config, varsCtl, confirmado, varsExt>>

(***************************************************************************)
(* Environment of the sync managers                                        *)
(***************************************************************************)
\* another system removes, truncates or replaces a store file on the remote host
CambioRemoto(base, contenido) ==
    /\ VerificarEstructuraBasica(remoto, RutaRemota(base))
    /\ remoto' = IF contenido = Ausente THEN Borrar(remoto, RutaRemota(base))
                 ELSE Escribir(remoto, RutaRemota(base), contenido)
    /\ UNCHANGED <<varsMig, disco, db_local_temp, estadoAsp, ultimaOp, config, varsCtl, confirmado, varsExt>>

\* the application writes into the local working copy of the aspirants store
EditarCopiaLocal ==
    /\ Existe(disco, db_local_temp)
    /\ disco[db_local_temp].clase = "db"
    /\ disco[db_local_temp].datos < MaxDatos
    /\ disco' = Escribir(disco, db_local_temp,
                         [disco[db_local_temp] EXCEPT !.tabla = TRUE, !.datos = @ + 1])
    /\ UNCHANGED <<varsMig, remoto, db_local_temp, estadoAsp, ultimaOp, config, varsCtl, confirmado, varsExt>>

(***************************************************************************)
(* Specification of the job engine                                         *)
(***************************************************************************)
Estudiante(id, estado, semestre, promedio, rfc, cp, creada) ==
    [id |-> id, matricula |-> <<77, 48 + id>>, curp |-> 0, rfc |-> rfc, codigo_postal |-> cp,
     carrera |-> <<69, 78, 70>>, semestre |-> semestre, estado_estudiante |-> estado,
     promedio |-> promedio, fecha_ingreso |-> 1, fecha_creacion |-> creada]

Aspirante(id, curp, mat, aprobacion, puntaje) ==
    [id |-> id, curp |-> curp, matricula_aspirante |-> mat, carrera_solicitada |-> <<69, 78, 70>>,
     estado_aprobacion |-> aprobacion, puntaje_total |-> puntaje, estado_migracion |-> ""]

Inscrito(id, estudiante, ciclo) == [id |-> id, estudiante_id |-> estudiante, ciclo_escolar |-> ciclo]

Egresado(id, estudiante) == [id |-> id, estudiante_id |-> estudiante, promedio_final |-> 85]

(***************************************************************************)
(* Templates of the control store (plantillas_migracion)                   *)
(***************************************************************************)

\* json.dumps / json.loads: the column holds a text, never the dictionary; on
\* the values the forms build (string keys, strings, numbers, booleans, lists,
\* ISO date strings) loads returns the value dumps was given
JsonDumps(valor) == [json |-> valor]

JsonLoads(texto) == texto.json

\* an inserted row: activa takes the column default 1, both dates the clock
FilaPlantilla(nombre, tipo, cfg, descripcion, ahora) ==
    [nombre |-> nombre, tipo_migracion |-> tipo, configuracion |-> JsonDumps(cfg),
     descripcion |-> descripcion, activa |-> 1, fecha_creacion |-> ahora,
     fecha_actualizacion |-> ahora]

\* the two rows _crear_estructura_bd_migracion inserts (INSERT OR IGNORE)
PlantillasBase ==
    << FilaPlantilla("estudiantes_a_egresados_basico", "estudiantes_a_egresados",
                     [criterios |-> [estado_estudiante |-> "Activo", semestre_minimo |-> 8,
                                     promedio_minimo |-> 80],
                      campos_mapeo |-> [matricula |-> "matricula", nombre |-> "nombre",
                                        apellido_paterno |-> "apellido_paterno",
                                        apellido_materno |-> "apellido_materno",
                                        carrera |-> "carrera"],
                      opciones |-> [crear_backup_antes |-> TRUE, validar_duplicados |-> TRUE,
                                    enviar_notificacion |-> FALSE]],
                     "Migracion basica de estudiantes activos a egresados", 0),
       FilaPlantilla("consolidar_bases_completo", "consolidar_bases",
                     [bases_origen |-> <<"aspirantes", "estudiantes", "egresados">>,
                      tabla_destino |-> "consolidado_general",
                      estrategia_fusion |-> "ultima_actualizacion",
                      mantener_historico |-> TRUE],
                     "Consolidacion completa de todas las bases", 0) >>

\* always INSERT, never looking for the name
GuardarPlantillaMigracion_SiempreInserta(tabla, nombre, tipo, cfg, descripcion, ahora) ==
    Append(tabla, FilaPlantilla(nombre, tipo, cfg, descripcion, ahora))

\* SELECT id WHERE nombre = ?; UPDATE of the row found, else INSERT
GuardarPlantillaMigracion(tabla, nombre, tipo, cfg, descripcion, ahora) ==
    IF \E i \in DOMAIN tabla : tabla[i].nombre = nombre
    THEN [i \in DOMAIN tabla |->
            IF tabla[i].nombre = nombre
            THEN [tabla[i] EXCEPT !.tipo_migracion = tipo,
                                  !.configuracion = JsonDumps(cfg),
                                  !.descripcion = descripcion,
                                  !.fecha_actualizacion = ahora]
            ELSE tabla[i]]
    ELSE Append(tabla, FilaPlantilla(nombre, tipo, cfg, descripcion, ahora))

\* SELECT * WHERE activa = 1 ORDER BY nombre, each configuration parsed; the
\* result is given as the set of templates (the order is by name)
ObtenerPlantillasMigracion(tabla) ==
    {[tabla[i] EXCEPT !.configuracion = JsonLoads(tabla[i].configuracion)] :
        i \in {j \in DOMAIN tabla : tabla[j].activa = 1}}

(***************************************************************************)
(* State file of the tracker (EstadoPersistenteBase)                       *)
(***************************************************************************)
\* A state file is absent, holds a text json.load rejects (a write cut short
\* leaves one), or holds the dumped state.  estado is read only when clase is
\* "json"
SinArchivo == [clase |-> "ausente", estado |-> JsonDumps(0)]

Ilegible == [clase |-> "ilegible", estado |-> JsonDumps(0)]

ArchivoJson(est) == [clase |-> "json", estado |-> JsonDumps(est)]

\* what the calls of open(..., 'w') and json.dump can do
Escrituras == {"ok", "temp_no_abre", "temp_cortada", "ambas_cortadas", "ninguna_abre"}

\* guardar_estado: the file of the temp directory is written; when that raises,
\* the file of the working directory; when that raises too, the error is only
\* logged.  open(..., 'w') truncates, so a dump that raises leaves a cut file
GuardarEstado(doc, est, escritura) ==
    CASE escritura = "ok" -> [doc EXCEPT !.temp = ArchivoJson(est)]
      [] escritura = "temp_no_abre" -> [doc EXCEPT !.cwd = ArchivoJson(est)]
      [] escritura = "temp_cortada" -> [doc EXCEPT !.temp = Ilegible, !.cwd = ArchivoJson(est)]
      [] escritura = "ambas_cortadas" -> [doc EXCEPT !.temp = Ilegible, !.cwd = Ilegible]
      [] OTHER -> doc

\* _migrar_estructura_estado on a document of structure 2.0: the keys that are
\* missing take their defaults
MigrarEstructuraEstado(est) ==
    [k \in DOMAIN EstadoPorDefecto |-> IF k \in DOMAIN est THEN est[k] ELSE EstadoPorDefecto[k]]

\* a loader that lets the error of json.load through
CargarEstado_SinExcept(doc) ==
    LET archivo == IF doc.temp.clase # "ausente" THEN doc.temp ELSE doc.cwd
    IN IF archivo.clase = "json"
       THEN [exc |-> FALSE, estado |-> MigrarEstructuraEstado(JsonLoads(archivo.estado))]
       ELSE [exc |-> archivo.clase = "ilegible", estado |-> EstadoPorDefecto]

\* _cargar_estado: the temp file when it exists, else the file of the working
\* directory when it exists; any exception is logged and the default returned
CargarEstado(doc) ==
    LET archivo == IF doc.temp.clase # "ausente" THEN doc.temp ELSE doc.cwd
    IN IF archivo.clase = "json"
       THEN [exc |-> FALSE, estado |-> MigrarEstructuraEstado(JsonLoads(archivo.estado))]
       ELSE [exc |-> FALSE, estado |-> EstadoPorDefecto]

(***************************************************************************)
(* Remote directories of the aspirants store                               *)
(***************************************************************************)
\* a remote path is the sequence of its characters
MaxRuta == 5

\* frames Python allows before it raises RecursionError
LimiteDeRecursion == 4

Letras == {"/", "a"}

RECURSIVE Cadenas(_)
Cadenas(n) == IF n = 0 THEN {<<>>}
              ELSE LET C == Cadenas(n - 1)
                   IN C \cup {Append(c, l) : c \in {x \in C : Len(x) = n - 1}, l \in Letras}

\* remote_paths['aspirantes_db'], '' when the key is missing
RutasConfiguradas == Cadenas(MaxRuta)

UltimaBarra(p) ==
    LET S == {i \in 1..Len(p) : p[i] = "/"}
    IN IF S = {} THEN 0 ELSE CHOOSE i \in S : \A j \in S : j <= i

SoloBarras(p) == \A i \in 1..Len(p) : p[i] = "/"

RECURSIVE QuitarBarrasFinales(_)
QuitarBarrasFinales(p) ==
    IF p # <<>> /\ p[Len(p)] = "/" THEN QuitarBarrasFinales(SubSeq(p, 1, Len(p) - 1)) ELSE p

\* os.path.dirname: everything up to the last slash, without its trailing
\* slashes unless it is made of slashes only
Dirname(p) ==
    LET head == SubSeq(p, 1, UltimaBarra(p))
    IN IF head # <<>> /\ ~SoloBarras(head) THEN QuitarBarrasFinales(head) ELSE head

RECURSIVE Componentes(_)
Componentes(p) ==
    IF p = <<>> THEN <<>>
    ELSE LET S == {i \in 1..Len(p) : p[i] = "/"}
             i == IF S = {} THEN Len(p) + 1 ELSE CHOOSE k \in S : \A j \in S : k <= j
             c == SubSeq(p, 1, i - 1)
             resto == SubSeq(p, i + 1, Len(p))
         IN IF c = <<>> THEN Componentes(resto) ELSE <<c>> \o Componentes(resto)

\* the file the server resolves a path to: repeated and trailing slashes do
\* not count, a relative path starts at the home directory
Resolver(p) == [abs |-> p # <<>> /\ p[1] = "/", comps |-> Componentes(p)]

PadreDe(c) == [c EXCEPT !.comps = SubSeq(@, 1, Len(@) - 1)]

\* the root and the home directory always exist
EsDirectorio(arb, c) == c.comps = <<>> \/ c \in arb.dirs

ExisteEnArbol(arb, c) == EsDirectorio(arb, c) \/ c \in arb.files

\* the session of the call: "ok"; "sin_permiso", the server refuses mkdir;
\* "caida", every SFTP request raises; "sin_sftp", obtener_sftp returns None
EstadosDeRed == {"ok", "sin_permiso", "caida", "sin_sftp"}

\* sftp.stat(p) returns
SftpStat(arb, p, red) ==
    red \in {"ok", "sin_permiso"} /\ p # <<>> /\ ExisteEnArbol(arb, Resolver(p))

\* sftp.mkdir(p) returns
SftpMkdir(arb, p, red) ==
    /\ red = "ok"
    /\ p # <<>>
    /\ ~ExisteEnArbol(arb, Resolver(p))
    /\ EsDirectorio(arb, PadreDe(Resolver(p)))

\* sftp.put(local, p) returns
SftpPut(arb, p, red) ==
    /\ red \in {"ok", "sin_permiso"}
    /\ p # <<>>
    /\ p[Len(p)] # "/"
    /\ ~EsDirectorio(arb, Resolver(p))
    /\ EsDirectorio(arb, PadreDe(Resolver(p)))

ArbolVacio == [dirs |-> {}, files |-> {}]

SinAlta == [fase |-> "inactiva", destino |-> <<>>, red |-> "ok", exito |-> FALSE]

DirectoriosInicial ==
    /\ arbol = ArbolVacio
    /\ pila = <<>>
    /\ creados = <<>>
    /\ alta = SinAlta

\* two aspirants registered with the defaults of the table, nothing logged
SinCambios ==
    [filas |-> [f \in {1, 2} |-> [estatus |-> "Nuevo", matricula_asignada |-> "",
                                  decision |-> ""]],
     bitacora |-> <<>>]

\* no backup taken; the store file was last written at 0, it is now 1, and the
\* file is under the 5 MB above which a backup is compressed
SinRespaldos == [archivos |-> <<>>, db_mtime |-> 0, ahora |-> 1, grande |-> FALSE]

GestoresInicial ==
    /\ aspirantesDb = SinCambios
    /\ respaldos = SinRespaldos

AuxInicial ==
    /\ DirectoriosInicial
    /\ GestoresInicial

\* what the server holds when the call starts
ArbolesIniciales ==
    LET A == [abs |-> TRUE, comps |-> <<(<<"a">>)>>]
        R == [abs |-> FALSE, comps |-> <<(<<"a">>)>>]
    IN {ArbolVacio, [dirs |-> {A}, files |-> {}], [dirs |-> {R}, files |-> {}],
        [dirs |-> {}, files |-> {A}]}

\* AspirantesConfig.__init__ reads remote_paths (lines 48-49); the server and
\* the session are as the call will find them
CargarRutas(destino, red, arb) ==
    /\ alta.fase = "sin_configurar"
    /\ alta' = [alta EXCEPT !.fase = "inactiva", !.destino = destino, !.red = red]
    /\ arbol' = arb
    /\ UNCHANGED <<pila, creados, varsBase>>

Marco(ruta, pc) == [ruta |-> ruta, pc |-> pc]

Cima == pila[Len(pila)]

Desapilar == SubSeq(pila, 1, Len(pila) - 1)

\* _crear_nueva_db_remota, lines 230-235, once the session and the SFTP
\* client are at hand
EmpezarCreacion ==
    /\ alta.fase = "inactiva"
    /\ LET remote_dir == Dirname(alta.destino)
       IN IF SftpStat(arbol, remote_dir, alta.red)
          THEN /\ alta' = [alta EXCEPT !.fase = "put"]
               /\ pila' = pila
          ELSE /\ alta' = [alta EXCEPT !.fase = "directorio"]
               /\ pila' = <<Marco(remote_dir, "stat")>>
    /\ UNCHANGED <<arbol, creados, varsBase>>

\* sftp.mkdir(remote_path) of line 270 inside its try block
Mkdir(ruta) ==
    IF SftpMkdir(arbol, ruta, alta.red)
    THEN /\ arbol' = [arbol EXCEPT !.dirs = @ \cup {Resolver(ruta)}]
         /\ creados' = Append(creados, Resolver(ruta))
    ELSE UNCHANGED <<arbol, creados>>

\* _crear_directorio_remoto_recursivo from its first line to the recursive
\* call, or to its end when it makes none.  A call beyond the limit of frames
\* raises RecursionError inside the try block of line 266
EntrarEnDirectorio ==
    /\ pila # <<>>
    /\ Cima.pc = "stat"
    /\ LET ruta == Cima.ruta
           parent_dir == Dirname(ruta)
       IN IF alta.red = "sin_sftp" \/ SftpStat(arbol, ruta, alta.red)
          THEN /\ pila' = Desapilar
               /\ UNCHANGED <<arbol, creados>>
          ELSE IF parent_dir # <<>> /\ parent_dir # <<"/">>
          THEN IF Len(pila) >= LimiteDeRecursion
               THEN /\ pila' = Desapilar
                    /\ UNCHANGED <<arbol, creados>>
               ELSE /\ pila' = Append([pila EXCEPT ![Len(pila)].pc = "mkdir"],
                                      Marco(parent_dir, "stat"))
                    /\ UNCHANGED <<arbol, creados>>
          ELSE /\ Mkdir(ruta)
               /\ pila' = Desapilar
    /\ UNCHANGED <<alta, varsBase>>

\* _crear_directorio_remoto_recursivo after the recursive call returned
SalirDeDirectorio ==
    /\ pila # <<>>
    /\ Cima.pc = "mkdir"
    /\ Mkdir(Cima.ruta)
    /\ pila' = Desapilar
    /\ UNCHANGED <<alta, varsBase>>

\* _crear_nueva_db_remota, lines 237-254: the upload and what follows it
SubirNuevaDb ==
    /\ alta.fase \in {"directorio", "put"}
    /\ pila = <<>>
    /\ IF SftpPut(arbol, alta.destino, alta.red)
       THEN /\ arbol' = [arbol EXCEPT !.files = @ \cup {Resolver(alta.destino)}]
            /\ alta' = [alta EXCEPT !.fase = "fin", !.exito = TRUE]
       ELSE /\ arbol' = arbol
            /\ alta' = [alta EXCEPT !.fase = "fin"]
    /\ UNCHANGED <<pila, creados, varsBase>>

\* the SFTP channel of the session stops answering during the call
CaidaDeSftp ==
    /\ alta.fase \in {"directorio", "put"}
    /\ alta.red = "ok"
    /\ alta' = [alta EXCEPT !.red = "caida"]
    /\ UNCHANGED <<arbol, pila, creados, varsBase>>

\* _inicializar_base_datos_migracion on the zero-state: control store created,
\* state marked initialised
EstadoMigInicial == MarcarDbInicializada(EstadoPorDefecto, 0)

\* the file marcar_db_inicializada wrote
DocumentoInicial == [temp |-> ArchivoJson(EstadoMigInicial), cwd |-> SinArchivo]

ControlInicial ==
    /\ migraciones = <<>>
    /\ registros = <<>>
    /\ consolidado = <<>>
    /\ estadoMig = EstadoMigInicial
    /\ llamada = SinLlamada
    /\ reloj = 0
    /\ generadas = <<>>
    /\ confirmado = almacen
    /\ proceso = [arranques |-> 1, creaciones |-> 1]
    /\ otra = SinLlamada
    /\ ssh = SinSesion
    /\ plantillas = PlantillasBase
    /\ documento = DocumentoInicial
    /\ AuxInicial

SyncInicial ==
    /\ remoto = <<>>
    /\ disco = <<>>
    /\ db_local_temp = NoRuta
    /\ estadoAsp = EstadoPorDefecto
    /\ ultimaOp = Operacion(0, "ninguna", "", FALSE, <<>>)
    /\ config = [auto_backup |-> TRUE]

Init ==
    /\ conexiones \in {{"migracion", "escuela", "aspirantes", "inscritos"},
                       {"migracion", "aspirantes"}, {"migracion"}}
    /\ \E egresados \in {{}, {Egresado(1, 3)}} :
        almacen = [escuela |-> [estudiantes |-> {Estudiante(1, "Activo", 8, 92, 5, 1, 1),
                                                 Estudiante(2, "Activo", 3, 70, 5, 1, 2),
                                                 Estudiante(3, "Activo", 9, 85, 0, 2, 2)},
                                inscritos |-> {Inscrito(1, 1, 1), Inscrito(2, 1, 2)},
                                egresados |-> egresados],
                   aspirantes |-> [aspirantes |-> {Aspirante(1, 7, 0, "Aprobado", 80),
                                                   Aspirante(2, 8, 0, "Rechazado", 40)}],
                   inscritos |-> [inscritos |-> {Inscrito(1, 2, 1)}]]
    /\ ControlInicial
    /\ SyncInicial

Next ==
    \/ \E tipo \in TIPOS_MIGRACION : \E cfg \in Configs(tipo) : CrearRegistro(tipo, cfg)
    \/ TipoInvalido
    \/ EjecutarRutina
    \/ SellarRegistro

Spec == Init /\ [][Next]_vars

(***************************************************************************)
(* Specification of repeated deduplication over varied store contents      *)
(***************************************************************************)
InitLimpieza ==
    /\ conexiones = {"migracion", "escuela", "aspirantes"}
    /\ \/ \E r2, r3 \in {0, 5} : \E c2, c3 \in {1, 2} : \E f2 \in {1, 2} : \E f3 \in {1, 2, 3} :
            almacen = [escuela |-> [estudiantes |-> {Estudiante(1, "Activo", 8, 92, 5, 1, 1),
                                                     Estudiante(2, "Activo", 3, 70, r2, c2, f2),
                                                     Estudiante(3, "Activo", 9, 85, r3, c3, f3)},
                                    inscritos |-> {Inscrito(1, 1, 1), Inscrito(2, 1, 2), Inscrito(3, 2, 1)},
                                    egresados |-> {}],
                       aspirantes |-> [aspirantes |-> {Aspirante(1, 7, 9, "Aprobado", 80)}],
                       inscritos |-> [inscritos |-> {}]]
       \/ \E u2, u3 \in {0, 7} : \E m2, m3 \in {0, 9} :
            almacen = [escuela |-> [estudiantes |-> {Estudiante(1, "Activo", 8, 92, 0, 1, 1)},
                                    inscritos |-> {}, egresados |-> {}],
                       aspirantes |-> [aspirantes |-> {Aspirante(1, 7, 9, "Aprobado", 80),
                                                       Aspirante(2, u2, m2, "Aprobado", 75),
                                                       Aspirante(3, u3, m3, "Rechazado", 40)}],
                       inscritos |-> [inscritos |-> {}]]
    /\ ControlInicial
    /\ SyncInicial

CrearLimpieza(cfg) ==
    /\ Len(migraciones) < MaxLimpiezas
    /\ CrearRegistro("limpiar_duplicados", cfg)

NextLimpieza ==
    \/ \E cfg \in Configs("limpiar_duplicados") : CrearLimpieza(cfg)
    \/ EjecutarRutina
    \/ SellarRegistro

SpecLimpieza == InitLimpieza /\ [][NextLimpieza]_vars

(***************************************************************************)
(* Specification of identifier generation: _generar_matricula applied to    *)
(* mapping rows (aspirante: dict) over varied estudiantes tables            *)
(***************************************************************************)
ENF == <<69, 78, 70>>

Matricula(codigo, secuencia) == Formato(Epoca.anio % 100, 2) \o codigo \o Formato(secuencia, 4)

EstudianteCon(id, matricula) ==
    [Estudiante(id, "Activo", 1, 0, 0, 0, 0) EXCEPT !.matricula = matricula]

\* carrera_solicitada of the applicants: 'ENF...', 'enf...', 'EN' and None
CarrerasSolicitadas == {ENF, <<101, 110, 102>>, <<69, 78>>, <<0>>}

InitMatricula ==
    /\ conexiones = {"migracion", "escuela", "aspirantes"}
    /\ \E existentes \in {{}, {1}, {9998}, {9999, 10000}, {1, 2, 3}} :
        almacen = [escuela |-> [estudiantes |-> {EstudianteCon(IF n > 9000 THEN n - 9000 ELSE n,
                                                               Matricula(ENF, n)) : n \in existentes},
                                inscritos |-> {}, egresados |-> {}],
                   aspirantes |-> [aspirantes |-> {}],
                   inscritos |-> [inscritos |-> {}]]
    /\ ControlInicial
    /\ SyncInicial

\* lines 731-776 for one applicant: the generated identifier and the INSERT
AltaConMatricula(carrera) ==
    /\ Len(generadas) < MaxAltas
    /\ LET ests == almacen["escuela"]["estudiantes"]
           a == [Aspirante(1, 0, <<>>, "Aprobado", 80) EXCEPT !.carrera_solicitada = carrera]
           fila == DatosEstudiante(SigId(ests), a, GenerarMatricula(a, ests, reloj), reloj)
       IN /\ generadas' = Append(generadas, fila.matricula)
          /\ almacen' = [almacen EXCEPT !["escuela"] =
                            [@ EXCEPT !["estudiantes"] = InsertarEstudiante(ests, fila).filas]]
    /\ UNCHANGED <<conexiones, migraciones, registros, consolidado, estadoMig, llamada, reloj, varsSync, config, varsCtl, confirmado, varsExt>>

Tic ==
    /\ reloj < MaxReloj
    /\ reloj' = reloj + 1
    /\ UNCHANGED <<conexiones, almacen, migraciones, registros, consolidado, estadoMig, llamada,
                   generadas, varsSync, config, varsCtl, confirmado, varsExt>>

NextMatricula ==
    \/ \E carrera \in CarrerasSolicitadas : AltaConMatricula(carrera)
    \/ Tic

SpecMatricula == InitMatricula /\ [][NextMatricula]_vars

(***************************************************************************)
(* Specification of the engine with restarts, commit faults and syncs      *)
(***************************************************************************)
\* A new run of the script builds SistemaMigracion again (migracion40.py:2427,
\* __init__ and _inicializar_sistema).  hallado tells whether the state file
\* written by guardar_estado is found; the connections of the previous object
\* are gone, and sync_on_start calls sincronizar_bases_datos
Reiniciar(hallado, fallo, parcial) ==
    /\ llamada.pc = "inactiva"
    /\ otra.pc = "inactiva"
    /\ proceso.arranques < MaxArranques
    /\ LET cargado == IF hallado THEN estadoMig ELSE EstadoPorDefecto
           crea == ~cargado.db_inicializada
           e1 == IF crea THEN MarcarDbInicializada(cargado, reloj) ELSE cargado
           con1 == IF crea THEN {"migracion"} ELSE {}
           r == ResultadoSincronizacion(con1, e1, disco, fallo, parcial)
       IN /\ migraciones' = IF crea THEN <<>> ELSE migraciones
          /\ registros' = IF crea THEN <<>> ELSE registros
          /\ consolidado' = IF crea THEN <<>> ELSE consolidado
          /\ proceso' = [arranques |-> proceso.arranques + 1,
                         creaciones |-> proceso.creaciones + IF crea THEN 1 ELSE 0]
          /\ disco' = r.disco
          /\ estadoMig' = r.est
          /\ conexiones' = r.con
          /\ almacen' = confirmado
          /\ ultimaOp' = [Operacion(ultimaOp.n + 1, "sincronizar_bases_datos", "todas", r.exito,
                                    r.resultados)
                           EXCEPT !.fallo = fallo]
    /\ UNCHANGED <<llamada, reloj, generadas, remoto, db_local_temp, estadoAsp, config, varsCtl,
                   confirmado, otra, ssh>>

CrearRegistroOtra(tipo, cfg) == CrearRegistroDe(otra, otra', tipo, cfg) /\ UNCHANGED llamada

EjecutarRutinaOtra == EjecutarRutinaDe(otra, otra') /\ UNCHANGED llamada

SellarRegistroOtra == SellarRegistroDe(otra, otra') /\ UNCHANGED llamada

CrearTrabajo(tipo, cfg) ==
    /\ Len(migraciones) < MaxTrabajos
    /\ CrearRegistro(tipo, cfg)

CrearTrabajoOtra(tipo, cfg) ==
    /\ Len(migraciones) < MaxTrabajos
    /\ CrearRegistroOtra(tipo, cfg)

TiposReinicio == {"estudiantes_a_egresados", "limpiar_duplicados"}

InitReinicio ==
    /\ conexiones = {"migracion", "escuela", "aspirantes", "inscritos"}
    /\ almacen = [escuela |-> [estudiantes |-> {Estudiante(1, "Activo", 8, 92, 5, 1, 1),
                                               Estudiante(2, "Activo", 3, 70, 5, 1, 2)},
                              inscritos |-> {},
                              egresados |-> {}],
                  aspirantes |-> [aspirantes |-> {Aspirante(1, 7, 0, "Aprobado", 80)}],
                  inscritos |-> [inscritos |-> {}]]
    /\ ControlInicial
    /\ remoto = [r \in {RutaRemota(b) : b \in Rango(BasesSincronizadas)} |-> BD(TRUE, 0)]
    /\ disco = [r \in {ArchivoLocal(b) : b \in Rango(BasesSincronizadas)} |-> BD(TRUE, 0)]
    /\ db_local_temp = NoRuta
    /\ estadoAsp = EstadoPorDefecto
    /\ ultimaOp = Operacion(0, "ninguna", "", FALSE, <<>>)
    /\ config = [auto_backup |-> TRUE]

NextReinicio ==
    \/ \E tipo \in TiposReinicio : \E cfg \in Configs(tipo) : CrearTrabajo(tipo, cfg)
    \/ EjecutarRutina
    \/ FalloAlConfirmar
    \/ SellarRegistro
    \/ \E tipo \in TiposReinicio : SinConexionDeControl(tipo)
    \/ \E hallado \in BOOLEAN : \E fallo \in {"ninguno", "conectar"} : Reiniciar(hallado, fallo, FALSE)
    \/ \E fallo \in {"ninguno", "escuela"} : SincronizarBasesDatos(fallo, FALSE)
    \/ SincronizarEnOtraSesion("ninguno", FALSE)

SpecReinicio == InitReinicio /\ [][NextReinicio]_vars

(***************************************************************************)
(* Specification of ejecutar_migracion over every kind                     *)
(***************************************************************************)
\* calls of every supported kind and of a kind outside the list, returning
\* and raising, with the connections the process may hold
InitTipos ==
    /\ conexiones \in {{"migracion", "escuela", "aspirantes", "inscritos"}, {"escuela"}}
    /\ almacen = [escuela |-> [estudiantes |-> {Estudiante(1, "Activo", 8, 92, 5, 1, 1),
                                               Estudiante(2, "Activo", 3, 70, 5, 1, 2)},
                              inscritos |-> {},
                              egresados |-> {}],
                  aspirantes |-> [aspirantes |-> {Aspirante(1, 7, 0, "Aprobado", 80)}],
                  inscritos |-> [inscritos |-> {}]]
    /\ ControlInicial
    /\ SyncInicial

NextTipos ==
    \/ \E tipo \in TIPOS_MIGRACION : CrearRegistro(tipo, [ninguno |-> 0])
    \/ TipoInvalido
    \/ \E tipo \in TIPOS_MIGRACION : SinConexionDeControl(tipo)
    \/ EjecutarRutina
    \/ FalloAlConfirmar
    \/ SellarRegistro

SpecTipos == InitTipos /\ [][NextTipos]_vars

(***************************************************************************)
(* Specification of two browser sessions calling ejecutar_migracion        *)
(***************************************************************************)
\* Streamlit serves every session in its own thread; both run main() over the
\* same control file and store files
TiposConcurrentes == {"estudiantes_a_egresados", "limpiar_duplicados"}

NextConcurrente ==
    \/ \E tipo \in TiposConcurrentes : \E cfg \in Configs(tipo) : CrearTrabajo(tipo, cfg)
    \/ EjecutarRutina
    \/ SellarRegistro
    \/ \E tipo \in TiposConcurrentes : \E cfg \in Configs(tipo) : CrearTrabajoOtra(tipo, cfg)
    \/ EjecutarRutinaOtra
    \/ SellarRegistroOtra

SpecConcurrente == InitReinicio /\ [][NextConcurrente]_vars

(***************************************************************************)
(* Specification of the promote jobs                                       *)
(***************************************************************************)
TiposDePromocion == {"estudiantes_a_egresados", "aspirantes_a_estudiantes"}

\* student 3 may have its egresados row; student 4 is the row of applicant 1
\* (same curp)
InitPromocion ==
    /\ conexiones = {"migracion", "escuela", "aspirantes", "inscritos"}
    /\ \E egresados \in {{}, {Egresado(1, 3)}} :
        almacen = [escuela |-> [estudiantes |-> {Estudiante(1, "Activo", 8, 92, 5, 1, 1),
                                                 Estudiante(2, "Activo", 3, 70, 5, 1, 2),
                                                 Estudiante(3, "Activo", 9, 85, 0, 2, 2),
                                                 [Estudiante(4, "Activo", 1, 0, 0, 2, 2)
                                                    EXCEPT !.curp = 7]},
                                inscritos |-> {},
                                egresados |-> egresados],
                   aspirantes |-> [aspirantes |-> {Aspirante(1, 7, 0, "Aprobado", 80),
                                                   Aspirante(2, 8, 0, "Aprobado", 75),
                                                   Aspirante(3, 9, 0, "Rechazado", 40)}],
                   inscritos |-> [inscritos |-> {}]]
    /\ ControlInicial
    /\ SyncInicial

NextPromocion ==
    \/ \E tipo \in TiposDePromocion : \E cfg \in Configs(tipo) \cup {[ninguno |-> 0]} :
            CrearRegistro(tipo, cfg)
    \/ EjecutarRutina
    \/ SellarRegistro

SpecPromocion == InitPromocion /\ [][NextPromocion]_vars

(***************************************************************************)
(* Specification of the template store                                     *)
(***************************************************************************)
NombresDePlantilla == {"estudiantes_a_egresados_basico", "cierre_de_ciclo"}

TiposDePlantilla == {"estudiantes_a_egresados", "consolidar_bases"}

\* descripcion = None is ""
Descripciones == {"", "cada semestre"}

\* a call of guardar_plantilla_migracion with its arguments
Guardado(n, nombre, tipo, cfg, descripcion, exito) ==
    [n |-> n, op |-> "guardar_plantilla_migracion", base |-> nombre, exito |-> exito,
     verificacion |-> <<>>, fallo |-> "ninguno", intentos |-> 1,
     tipo |-> tipo, cfg |-> cfg, descripcion |-> descripcion]

\* guardar_plantilla_migracion: without the control connection line 1129 raises
\* KeyError, which line 1154 logs and raises again
LlamarGuardarPlantilla(nombre, tipo, cfg, descripcion) ==
    /\ ultimaOp.n < MaxGuardados
    /\ IF "migracion" \in conexiones
       THEN /\ plantillas' = GuardarPlantillaMigracion(plantillas, nombre, tipo, cfg,
                                                       descripcion, reloj)
            /\ ultimaOp' = Guardado(ultimaOp.n + 1, nombre, tipo, cfg, descripcion, TRUE)
       ELSE /\ plantillas' = plantillas
            /\ ultimaOp' = Guardado(ultimaOp.n + 1, nombre, tipo, cfg, descripcion, FALSE)
    /\ UNCHANGED <<varsMig, remoto, disco, db_local_temp, estadoAsp, config, confirmado,
                   varsExt, documento, varsAux>>

InitPlantillas ==
    /\ conexiones \in {{"migracion"}, {}}
    /\ almacen = [escuela |-> [estudiantes |-> {}, inscritos |-> {}, egresados |-> {}],
                  aspirantes |-> [aspirantes |-> {}],
                  inscritos |-> [inscritos |-> {}]]
    /\ ControlInicial
    /\ SyncInicial

NextPlantillas ==
    \/ \E nombre \in NombresDePlantilla : \E tipo \in TiposDePlantilla :
       \E cfg \in Configs(tipo) : \E descripcion \in Descripciones :
            LlamarGuardarPlantilla(nombre, tipo, cfg, descripcion)
    \/ Tic

SpecPlantillas == InitPlantillas /\ [][NextPlantillas]_vars

(***************************************************************************)
(* Specification of the state tracker and its file                         *)
(***************************************************************************)
\* one of the five operations of the tracker: the state changes in memory and
\* guardar_estado is called; the operation returns whatever the write did
Mutar(op, est, escritura) ==
    /\ ultimaOp.n < MaxMutaciones
    /\ estadoMig' = est
    /\ documento' = GuardarEstado(documento, est, escritura)
    /\ ultimaOp' = [Operacion(ultimaOp.n + 1, op, "", TRUE, <<>>) EXCEPT !.fallo = escritura]
    /\ UNCHANGED <<conexiones, almacen, migraciones, registros, consolidado, llamada, reloj,
                   generadas, remoto, disco, db_local_temp, estadoAsp, config, confirmado,
                   varsExt, plantillas, varsAux>>

LlamarMarcarDbInicializada(escritura) ==
    Mutar("marcar_db_inicializada", MarcarDbInicializada(estadoMig, reloj), escritura)

LlamarMarcarSincronizacion(escritura) ==
    Mutar("marcar_sincronizacion", MarcarSincronizacion(estadoMig, reloj), escritura)

LlamarSetSshConectado(conectado, error, escritura) ==
    Mutar("set_ssh_conectado", SetSshConectado(estadoMig, conectado, error), escritura)

LlamarRegistrarMigracion(exitosa, tiempo_ejecucion, escritura) ==
    Mutar("registrar_migracion", RegistrarMigracion(estadoMig, exitosa, tiempo_ejecucion),
          escritura)

LlamarRegistrarBackup(escritura) ==
    Mutar("registrar_backup", RegistrarBackup(estadoMig), escritura)

\* a new process builds the tracker: EstadoPersistenteBase.__init__ calls
\* _cargar_estado; an exception of the constructor would leave no tracker
NuevoProceso ==
    /\ proceso.arranques < MaxArranques
    /\ LET r == CargarEstado(documento)
       IN /\ estadoMig' = IF r.exc THEN estadoMig ELSE r.estado
          /\ ultimaOp' = Operacion(ultimaOp.n, "_cargar_estado", "", ~r.exc, <<>>)
    /\ proceso' = [proceso EXCEPT !.arranques = @ + 1]
    /\ UNCHANGED <<conexiones, almacen, migraciones, registros, consolidado, llamada, reloj,
                   generadas, remoto, disco, db_local_temp, estadoAsp, config, confirmado,
                   otra, ssh, varsCtl>>

\* the host empties its temp directory (tempfile.gettempdir())
VaciarTemporal ==
    /\ documento.temp.clase # "ausente"
    /\ documento' = [documento EXCEPT !.temp = SinArchivo]
    /\ UNCHANGED <<varsMig, varsSync, config, confirmado, varsExt, plantillas, varsAux>>

InitEstado ==
    /\ conexiones = {"migracion"}
    /\ almacen = [escuela |-> [estudiantes |-> {}, inscritos |-> {}, egresados |-> {}],
                  aspirantes |-> [aspirantes |-> {}],
                  inscritos |-> [inscritos |-> {}]]
    /\ ControlInicial
    /\ SyncInicial

NextEstado ==
    \/ \E escritura \in Escrituras : LlamarMarcarDbInicializada(escritura)
    \/ \E escritura \in Escrituras : LlamarMarcarSincronizacion(escritura)
    \/ \E escritura \in Escrituras : \E c \in {<<TRUE, "">>, <<FALSE, "timeout">>} :
            LlamarSetSshConectado(c[1], c[2], escritura)
    \/ \E escritura \in Escrituras : \E exitosa \in BOOLEAN :
            LlamarRegistrarMigracion(exitosa, 1, escritura)
    \/ \E escritura \in Escrituras : LlamarRegistrarBackup(escritura)
    \/ NuevoProceso
    \/ VaciarTemporal
    \/ Tic

SpecEstado == InitEstado /\ [][NextEstado]_vars

(***************************************************************************)
(* Shared SSH manager (GestorSSHCompartido)                                *)
(***************************************************************************)
\* _verificar_conexion_activa: both handles set and the transport active
VerificarConexionActiva(s) == s.cliente # 0 /\ s.sftp # 0 /\ s.activo

\* variant: conectar without the reuse of lines 538-540
Conectar_SiempreNueva(s, resultado) ==
    IF ~s.habilitado THEN [s EXCEPT !.n = @ + 1, !.ret = FALSE]
    ELSE LET nuevo == s.abiertas + 1
             s1 == [s EXCEPT !.n = @ + 1, !.cliente = nuevo, !.abiertas = nuevo]
         IN CASE resultado = "connect_falla" -> [s1 EXCEPT !.activo = FALSE, !.ret = FALSE]
              [] resultado = "sftp_falla" -> [s1 EXCEPT !.activo = TRUE, !.ret = FALSE]
              [] OTHER -> [s1 EXCEPT !.activo = TRUE, !.sftp = nuevo, !.ret = TRUE]

\* conectar: resultado is what the network does to a new connection
\* (connect raises, open_sftp raises, or both succeed).  The new SSHClient is
\* assigned to _ssh_client before connect, _sftp_client only after open_sftp
Conectar(s, resultado) ==
    IF ~s.habilitado THEN [s EXCEPT !.n = @ + 1, !.ret = FALSE]
    ELSE IF s.cliente # 0 /\ VerificarConexionActiva(s)
    THEN [s EXCEPT !.n = @ + 1, !.ret = TRUE]
    ELSE LET nuevo == s.abiertas + 1
             s1 == [s EXCEPT !.n = @ + 1, !.cliente = nuevo, !.abiertas = nuevo]
         IN CASE resultado = "connect_falla" -> [s1 EXCEPT !.activo = FALSE, !.ret = FALSE]
              [] resultado = "sftp_falla" -> [s1 EXCEPT !.activo = TRUE, !.ret = FALSE]
              [] OTHER -> [s1 EXCEPT !.activo = TRUE, !.sftp = nuevo, !.ret = TRUE]

ResultadosDeRed == {"ok", "connect_falla", "sftp_falla"}

OtrasSinSsh ==
    UNCHANGED <<varsMig, varsSync, config, varsCtl, confirmado, proceso, otra>>

LlamarConectar(resultado) ==
    /\ ssh.n < MaxConexiones
    /\ ssh' = Conectar(ssh, resultado)
    /\ OtrasSinSsh

\* obtener_sftp: conectar only when the session is not active
ObtenerSftp(resultado) ==
    /\ ssh.n < MaxConexiones
    /\ ~VerificarConexionActiva(ssh)
    /\ ssh' = Conectar(ssh, resultado)
    /\ OtrasSinSsh

\* desconectar
Desconectar ==
    /\ ssh.cliente # 0 \/ ssh.sftp # 0
    /\ ssh' = [ssh EXCEPT !.cliente = 0, !.sftp = 0, !.activo = FALSE]
    /\ OtrasSinSsh

\* the server or the network closes the transport of the current client
CaidaDeTransporte ==
    /\ ssh.activo
    /\ ssh' = [ssh EXCEPT !.activo = FALSE]
    /\ OtrasSinSsh

InitSSH ==
    /\ conexiones = {"migracion"}
    /\ almacen = [escuela |-> [estudiantes |-> {}, inscritos |-> {}, egresados |-> {}],
                  aspirantes |-> [aspirantes |-> {}],
                  inscritos |-> [inscritos |-> {}]]
    /\ migraciones = <<>>
    /\ registros = <<>>
    /\ consolidado = <<>>
    /\ estadoMig = EstadoMigInicial
    /\ llamada = SinLlamada
    /\ reloj = 0
    /\ generadas = <<>>
    /\ confirmado = almacen
    /\ proceso = [arranques |-> 1, creaciones |-> 1]
    /\ otra = SinLlamada
    /\ SyncInicial
    /\ \E h \in BOOLEAN : ssh = [SinSesion EXCEPT !.habilitado = h]
    /\ plantillas = PlantillasBase
    /\ documento = DocumentoInicial
    /\ AuxInicial

NextSSH ==
    \/ \E resultado \in ResultadosDeRed : LlamarConectar(resultado)
    \/ \E resultado \in ResultadosDeRed : ObtenerSftp(resultado)
    \/ Desconectar
    \/ CaidaDeTransporte

SpecSSH == InitSSH /\ [][NextSSH]_vars

(***************************************************************************)
(* Specification of the uses of the shared session                         *)
(***************************************************************************)
MaxUsos == 3

\* what a use of the session did: manejador is the client the request was
\* issued on, 0 when none was issued
Uso(n, op, manejador) ==
    Operacion(n, op, "", manejador # 0, <<>>) @@ [manejador |-> manejador]

\* obtener_sftp / obtener_ssh up to the return: conectar when the health
\* check fails, None (devuelve FALSE) when conectar returned False
ObtenerSesion(s, resultado) ==
    IF VerificarConexionActiva(s) THEN [sesion |-> s, devuelve |-> TRUE]
    ELSE [sesion |-> Conectar(s, resultado), devuelve |-> Conectar(s, resultado).ret]

\* a caller takes obtener_sftp() and issues a transfer (get, put, stat) on what
\* it returned: _sftp_client, or None when conectar returned False
UsarSftp(resultado) ==
    /\ ultimaOp.n < MaxUsos
    /\ ssh.n < MaxConexiones
    /\ LET s1 == ObtenerSesion(ssh, resultado)
       IN /\ ssh' = s1.sesion
          /\ ultimaOp' = Uso(ultimaOp.n + 1, "obtener_sftp",
                             IF s1.devuelve THEN s1.sesion.sftp ELSE 0)
    /\ UNCHANGED <<varsMig, remoto, disco, db_local_temp, estadoAsp, config, varsCtl,
                   confirmado, proceso, otra>>

\* ejecutar_comando_remoto: exec_command on what obtener_ssh() returned
EjecutarComandoRemoto(resultado) ==
    /\ ultimaOp.n < MaxUsos
    /\ ssh.n < MaxConexiones
    /\ LET s1 == ObtenerSesion(ssh, resultado)
       IN /\ ssh' = s1.sesion
          /\ ultimaOp' = Uso(ultimaOp.n + 1, "ejecutar_comando_remoto",
                             IF s1.devuelve THEN s1.sesion.cliente ELSE 0)
    /\ UNCHANGED <<varsMig, remoto, disco, db_local_temp, estadoAsp, config, varsCtl,
                   confirmado, proceso, otra>>

NextTransporte ==
    \/ \E resultado \in ResultadosDeRed : LlamarConectar(resultado)
    \/ \E resultado \in ResultadosDeRed : UsarSftp(resultado)
    \/ \E resultado \in ResultadosDeRed : EjecutarComandoRemoto(resultado)
    \/ Desconectar
    \/ CaidaDeTransporte

SpecTransporte == InitSSH /\ [][NextTransporte]_vars

(***************************************************************************)
(* Specification of the sync managers                                      *)
(***************************************************************************)
\* what the remote host may hold for a store when the systems start
ContenidosRemotos == {Vacio, BD(FALSE, 0), BD(TRUE, 0)}

RemotoCon(base, c) == IF c = Ausente THEN <<>> ELSE (RutaRemota(base) :> c)

InitSync ==
    /\ conexiones = {"migracion"}
    /\ almacen = [escuela |-> [estudiantes |-> {}, inscritos |-> {}, egresados |-> {}],
                  aspirantes |-> [aspirantes |-> {}],
                  inscritos |-> [inscritos |-> {}]]
    /\ ControlInicial
    /\ \E a \in ContenidosRemotos \cup {Ausente} : \E e \in {Vacio, BD(TRUE, 0)} :
        remoto = RemotoCon("aspirantes", a) @@ RemotoCon("escuela", e)
    /\ disco = <<>>
    /\ db_local_temp = NoRuta
    /\ estadoAsp = EstadoPorDefecto
    /\ ultimaOp = Operacion(0, "ninguna", "", FALSE, <<>>)
    /\ config \in {[auto_backup |-> TRUE], [auto_backup |-> FALSE]}

NextSync ==
    \/ \E fallo \in FallosPull : \E parcial \in BOOLEAN : PullAspirantes(fallo, parcial)
    \/ \E fallo \in FallosPush : PushAspirantes(fallo)
    \/ \E fallo \in FallosPullMig : \E parcial \in BOOLEAN : SincronizarBasesDatos(fallo, parcial)
    \/ \E base \in {"escuela", "aspirantes"} : \E fallo \in FallosPushMig : SubirBaseDatos(base, fallo)
    \/ \E base \in {"escuela", "aspirantes"} : \E c \in {Ausente, Vacio, BD(FALSE, 0)} :
        CambioRemoto(base, c)
    \/ EditarCopiaLocal
    \/ Tic

SpecSync == InitSync /\ [][NextSync]_vars

(***************************************************************************)
(* Specification of the pushes                                             *)
(***************************************************************************)
\* both pushes with every fault, after no pull, a pull that worked or one that
\* did not
NextSubida ==
    \/ \E fallo \in {"ninguno", "conectar"} : PullAspirantes(fallo, FALSE)
    \/ \E fallo \in FallosPush : PushAspirantes(fallo)
    \/ \E fallo \in {"ninguno", "conectar"} : SincronizarBasesDatos(fallo, FALSE)
    \/ \E base \in {"escuela", "aspirantes"} : \E fallo \in FallosPushMig : SubirBaseDatos(base, fallo)
    \/ Tic

SpecSubida == InitSync /\ [][NextSubida]_vars

(***************************************************************************)
(* Specification of the creation of a new remote store                     *)
(***************************************************************************)
\* the systems at rest: nothing migrated, nothing synchronised, no session
BaseInicial ==
    /\ conexiones = {"migracion"}
    /\ almacen = [escuela |-> [estudiantes |-> {}, inscritos |-> {}, egresados |-> {}],
                  aspirantes |-> [aspirantes |-> {}],
                  inscritos |-> [inscritos |-> {}]]
    /\ migraciones = <<>>
    /\ registros = <<>>
    /\ consolidado = <<>>
    /\ estadoMig = EstadoMigInicial
    /\ llamada = SinLlamada
    /\ reloj = 0
    /\ generadas = <<>>
    /\ confirmado = almacen
    /\ proceso = [arranques |-> 1, creaciones |-> 1]
    /\ otra = SinLlamada
    /\ ssh = SinSesion
    /\ SyncInicial
    /\ plantillas = PlantillasBase
    /\ documento = DocumentoInicial

InitDirectorios ==
    /\ BaseInicial
    /\ arbol = ArbolVacio
    /\ pila = <<>>
    /\ creados = <<>>
    /\ alta = [SinAlta EXCEPT !.fase = "sin_configurar"]
    /\ GestoresInicial

(***************************************************************************)
(* Status and matricula of the aspirants (GestorBaseDatosAspirantes)       *)
(***************************************************************************)
MaxCambios == 3

\* estado['categorias']; "En Revision" stands for the accented label
CATEGORIAS == {"Nuevo", "En Revision", "Aprobado", "Rechazado", "Matriculado"}

Bitacora(db, accion, folio) == Append(db.bitacora, [accion |-> accion, folio |-> folio])

\* actualizar_estatus_aspirante: UPDATE ... WHERE folio = ?, False when no
\* row matched; error tells that a statement raised, which rolls back
ActualizarEstatusAspirante(db, folio, nuevo_estatus, error) ==
    IF error \/ folio \notin DOMAIN db.filas
    THEN [db |-> db, ret |-> FALSE]
    ELSE [db |-> [filas |-> [db.filas EXCEPT
                                ![folio].estatus = nuevo_estatus,
                                ![folio].decision =
                                    IF nuevo_estatus \in {"Aprobado", "Rechazado", "Matriculado"}
                                    THEN nuevo_estatus ELSE @],
                  bitacora |-> Bitacora(db, "CAMBIO_ESTATUS", folio)],
          ret |-> TRUE]

\* asignar_matricula: only an aspirant that exists and is 'Aprobado'
AsignarMatricula(db, folio, matricula, error) ==
    IF error \/ folio \notin DOMAIN db.filas
    THEN [db |-> db, ret |-> FALSE]
    ELSE IF db.filas[folio].estatus # "Aprobado"
    THEN [db |-> db, ret |-> FALSE]
    ELSE [db |-> [filas |-> [db.filas EXCEPT ![folio].matricula_asignada = matricula,
                                            ![folio].estatus = "Matriculado"],
                  bitacora |-> Bitacora(db, "ASIGNACION_MATRICULA", folio)],
          ret |-> TRUE]

\* what a call on the aspirants table did
Cambio(n, op, folio, ret) == Operacion(n, op, "", ret, <<>>) @@ [folio |-> folio]

LlamarActualizarEstatus(folio, nuevo_estatus, error) ==
    /\ ultimaOp.n < MaxCambios
    /\ LET r == ActualizarEstatusAspirante(aspirantesDb, folio, nuevo_estatus, error)
       IN /\ aspirantesDb' = r.db
          /\ ultimaOp' = Cambio(ultimaOp.n + 1, "actualizar_estatus_aspirante", folio, r.ret)
    /\ UNCHANGED <<varsMig, remoto, disco, db_local_temp, estadoAsp, config, confirmado,
                   varsExt, plantillas, documento, varsDir, respaldos>>

\* asignar_matricula and, when it succeeded, the count of lines 703-704
LlamarAsignarMatricula(folio, matricula, error) ==
    /\ ultimaOp.n < MaxCambios
    /\ LET r == AsignarMatricula(aspirantesDb, folio, matricula, error)
       IN /\ aspirantesDb' = r.db
          /\ ultimaOp' = Cambio(ultimaOp.n + 1, "asignar_matricula", folio, r.ret)
          /\ estadoAsp' =
                IF r.ret
                THEN [aspirantes_procesados |->
                        DictGet(estadoAsp, "aspirantes_procesados", 0) + 1] @@ estadoAsp
                ELSE estadoAsp
    /\ UNCHANGED <<varsMig, remoto, disco, db_local_temp, config, confirmado,
                   varsExt, plantillas, documento, varsDir, respaldos>>

\* folios of the calls: the two of the table and one that is not registered
FoliosPedidos == {1, 2, 3}

\* matriculas typed in: none or one
MatriculasPedidas == {"", "MAT-EST-1"}

InitAspirantes ==
    /\ BaseInicial
    /\ DirectoriosInicial
    /\ GestoresInicial

NextAspirantes ==
    \/ \E folio \in FoliosPedidos : \E nuevo_estatus \in CATEGORIAS : \E error \in BOOLEAN :
        LlamarActualizarEstatus(folio, nuevo_estatus, error)
    \/ \E folio \in FoliosPedidos : \E matricula \in MatriculasPedidas : \E error \in BOOLEAN :
        LlamarAsignarMatricula(folio, matricula, error)

SpecAspirantes == InitAspirantes /\ [][NextAspirantes]_vars

(***************************************************************************)
(* Backups of the school store (escuela40.py, GestorBaseDatos)             *)
(***************************************************************************)
\* database.max_backups, 10 unless configured
max_backups == 2

MaxHora == 4

MaxRespaldos == 4

\* escuela_backup_<timestamp>.db, with .gz when it was compressed
NombreDeBackup(ts, gz) == [ts |-> ts, gz |-> gz]

SinBackup == NombreDeBackup(0, FALSE)

\* the sets of files _limpiar_backups_antiguos may remove: it sorts by
\* os.path.getmtime and pops from the front while more than max_backups are
\* listed; files of equal mtime keep the order of os.listdir, which is any
Sobrantes(archivos) ==
    LET n == Cardinality(DOMAIN archivos)
        exceso == IF n > max_backups THEN n - max_backups ELSE 0
    IN {R \in SUBSET DOMAIN archivos :
            /\ Cardinality(R) = exceso
            /\ \A r \in R : \A k \in (DOMAIN archivos) \ R : archivos[r] <= archivos[k]}

\* _limpiar_backups_antiguos with the files R removed
LimpiarBackupsAntiguos(archivos, R) == [x \in (DOMAIN archivos) \ R |-> archivos[x]]

\* what crear_backup returned and the file it wrote
Backup(n, ret, creado) == Operacion(n, "crear_backup", "", ret, <<>>) @@ [creado |-> creado]

\* crear_backup.  shutil.copy2 copies the file with its modification time;
\* the compressed file of a large store is written anew
CrearBackup(espacio, copia) ==
    /\ ultimaOp.n < MaxRespaldos
    /\ IF ~config.backup_enabled
       THEN /\ ultimaOp' = Backup(ultimaOp.n + 1, TRUE, SinBackup)
            /\ UNCHANGED respaldos
       ELSE IF ~espacio \/ ~copia
       THEN /\ ultimaOp' = Backup(ultimaOp.n + 1, FALSE, SinBackup)
            /\ UNCHANGED respaldos
       ELSE LET backup_file == NombreDeBackup(respaldos.ahora, respaldos.grande)
                mtime == IF respaldos.grande THEN respaldos.ahora ELSE respaldos.db_mtime
                copiados == (backup_file :> mtime) @@ respaldos.archivos
            IN \E R \in Sobrantes(copiados) :
                /\ respaldos' = [respaldos EXCEPT
                                    !.archivos = LimpiarBackupsAntiguos(copiados, R)]
                /\ ultimaOp' = Backup(ultimaOp.n + 1, TRUE, backup_file)
    /\ UNCHANGED <<varsMig, remoto, disco, db_local_temp, estadoAsp, config, confirmado,
                   varsExt, plantillas, documento, varsDir, aspirantesDb>>

\* the application writes into the store file
ModificarDb ==
    /\ respaldos.db_mtime # respaldos.ahora
    /\ respaldos' = [respaldos EXCEPT !.db_mtime = respaldos.ahora]
    /\ UNCHANGED <<varsMig, varsSync, config, confirmado, varsExt, plantillas, documento,
                   varsDir, aspirantesDb>>

\* the store file grows over the 5 MB of line 438
CreceElArchivo ==
    /\ ~respaldos.grande
    /\ respaldos' = [respaldos EXCEPT !.grande = TRUE, !.db_mtime = respaldos.ahora]
    /\ UNCHANGED <<varsMig, varsSync, config, confirmado, varsExt, plantillas, documento,
                   varsDir, aspirantesDb>>

\* a second goes by
PasaUnSegundo ==
    /\ respaldos.ahora < MaxHora
    /\ respaldos' = [respaldos EXCEPT !.ahora = @ + 1]
    /\ UNCHANGED <<varsMig, varsSync, config, confirmado, varsExt, plantillas, documento,
                   varsDir, aspirantesDb>>

InitRespaldos ==
    /\ conexiones = {"migracion"}
    /\ almacen = [escuela |-> [estudiantes |-> {}, inscritos |-> {}, egresados |-> {}],
                  aspirantes |-> [aspirantes |-> {}],
                  inscritos |-> [inscritos |-> {}]]
    /\ ControlInicial
    /\ remoto = <<>>
    /\ disco = <<>>
    /\ db_local_temp = NoRuta
    /\ estadoAsp = EstadoPorDefecto
    /\ ultimaOp = Operacion(0, "ninguna", "", FALSE, <<>>)
    /\ \E b \in BOOLEAN : config = [auto_backup |-> TRUE, backup_enabled |-> b]

NextRespaldos ==
    \/ \E espacio \in BOOLEAN : \E copia \in BOOLEAN : CrearBackup(espacio, copia)
    \/ ModificarDb
    \/ CreceElArchivo
    \/ PasaUnSegundo

SpecRespaldos == InitRespaldos /\ [][NextRespaldos]_vars

\* the steps of _crear_directorio_remoto_recursivo
PasoDeDirectorio == EntrarEnDirectorio \/ SalirDeDirectorio

NextDirectorios ==
    \/ \E destino \in RutasConfiguradas : \E red \in EstadosDeRed : \E arb \in ArbolesIniciales :
        CargarRutas(destino, red, arb)
    \/ EmpezarCreacion
    \/ EntrarEnDirectorio
    \/ SalirDeDirectorio
    \/ SubirNuevaDb
    \/ CaidaDeSftp

\* the function runs in one thread: a frame that can go on does go on
SpecDirectorios == InitDirectorios /\ [][NextDirectorios]_vars /\ WF_vars(PasoDeDirectorio)

\* the step is a synchronisation call of the given operation
EsLlamada(op) == ultimaOp'.n = ultimaOp.n + 1 /\ ultimaOp'.op = op

VerificacionFallida == {"vacio", "ausente", "sin_tabla"}

\* C1: every pull that fails verification (downloaded file empty or absent, or
\* primary table missing) while a local working copy exists leaves that working
\* copy, its path and its content, as it was before the attempt.
C1_CopiaLocalIntacta ==
    [][ /\ (/\ EsLlamada("sincronizar_desde_remoto")
            /\ ultimaOp'.verificacion.aspirantes \in VerificacionFallida
            /\ Existe(disco, db_local_temp))
            => /\ db_local_temp' = db_local_temp
               /\ Leer(disco', db_local_temp') = Leer(disco, db_local_temp)
        /\ EsLlamada("sincronizar_bases_datos")
            => \A b \in DOMAIN ultimaOp'.verificacion :
                 (/\ ultimaOp'.verificacion[b] \in VerificacionFallida
                  /\ Existe(disco, ArchivoLocal(b)))
                 => Leer(disco', ArchivoLocal(b)) = Leer(disco, ArchivoLocal(b)) ]_vars

\* the remote backups of a path
RespaldosRemotos(rem, ruta) ==
    {r \in DOMAIN rem : r.nombre = ruta.nombre /\ r.sufijo = ruta.sufijo /\ r.respaldo >= 0}

\* C2: after every successful push made while a remote file existed at the
\* target path, the remote host holds a file <path>.backup_<timestamp> with the
\* content the target had before the push.
C2_RespaldoAntesDeSubir ==
    [][ \A base \in {"escuela", "aspirantes"} :
          (/\ EsLlamada("sincronizar_hacia_remoto") \/ EsLlamada("subir_base_datos")
           /\ ultimaOp'.base = base
           /\ ultimaOp'.exito
           /\ Existe(remoto, RutaRemota(base)))
          => \E r \in RespaldosRemotos(remoto', RutaRemota(base)) :
                remoto'[r] = remoto[RutaRemota(base)] ]_vars

(***************************************************************************)
(* Properties                                                              *)
(***************************************************************************)
RegistrosDe(i) ==
    {j \in DOMAIN registros :
        registros[j].migracion_id = i /\ registros[j].estado \in {"exitoso", "fallido", "omitido"}}

\* C3: for every job row sealed completada, the number of registros_migrados
\* rows of the job (exitoso + fallido + omitido) equals its total_registros.
C3_AuditoriaCompleta ==
    \A i \in DOMAIN migraciones :
        migraciones[i].estado = "completada"
            => Cardinality(RegistrosDe(i)) = migraciones[i].total_registros

\* C4: a job row is created in state en_progreso by the call in progress, is
\* never removed, and its state only changes from en_progreso to completada or
\* fallida.
C4_Transiciones ==
    [][/\ DOMAIN migraciones \subseteq DOMAIN migraciones'
       /\ \A i \in DOMAIN migraciones' :
            IF i \in DOMAIN migraciones
            THEN \/ migraciones'[i].estado = migraciones[i].estado
                 \/ /\ migraciones[i].estado = "en_progreso"
                    /\ migraciones'[i].estado \in {"completada", "fallida"}
            ELSE migraciones'[i].estado = "en_progreso" /\ llamada'.id = i]_vars

C4_Testigo ==
    /\ llamada.pc = "creada"
    /\ \E i, j \in DOMAIN migraciones :
        /\ migraciones[i].estado = "completada"
        /\ migraciones[j].estado = "fallida"
        /\ migraciones[llamada.id].estado = "en_progreso"

\* C5: a job row is sealed fallida only if the routine of its kind raised (the
\* except branch is the one that fills errores); a pass that returned is
\* sealed completada.
C5_FallidaSoloSiLevanta ==
    \A i \in DOMAIN migraciones :
        migraciones[i].estado = "fallida" => migraciones[i].errores # ""

PasoDeRutina(tipo) ==
    llamada.pc = "creada" /\ llamada.tipo = tipo /\ llamada'.pc = "ejecutada"

\* the job before the one in progress was of the same kind, had the same
\* configuration and ran to completion
RepiteAnterior ==
    /\ llamada.id > 1
    /\ migraciones[llamada.id - 1].tipo_migracion = llamada.tipo
    /\ migraciones[llamada.id - 1].configuracion = llamada.cfg
    /\ migraciones[llamada.id - 1].errores = ""
    /\ migraciones[llamada.id - 1].fecha_fin

ClavesConsolidadoUnicas ==
    \A i, j \in DOMAIN consolidado :
        (consolidado[i].tipo_registro = consolidado[j].tipo_registro
            /\ consolidado[i].origen_tabla = consolidado[j].origen_tabla
            /\ consolidado[i].origen_id = consolidado[j].origen_id) => i = j

\* C6: a consolidar_bases pass that repeats the previous job on unchanged
\* sources inserts nothing, and the destination never holds two rows with the
\* same (source store, source table, source id).
C6_ConsolidacionIdempotente ==
    [][/\ (PasoDeRutina("consolidar_bases") /\ RepiteAnterior)
            => (consolidado' = consolidado /\ llamada'.res.exitosos = 0)
       /\ ClavesConsolidadoUnicas']_vars

C6_Testigo ==
    /\ llamada.pc = "ejecutada"
    /\ llamada.tipo = "consolidar_bases"
    /\ RepiteAnterior
    /\ migraciones[llamada.id - 1].registros_exitosos > 1
    /\ Len(consolidado) > 1

FilasConClave(base, tabla, col) ==
    {r \in almacen[base][tabla] : ~EsNulo(col, r[col])}

\* the stores a limpiar_duplicados job with configuration cfg works on
BasesLimpiadas(cfg) ==
    {b \in Rango(DictGet(cfg, "bases", <<"escuela">>)) : b \in conexiones}

SinDuplicados(base) ==
    \A t \in Rango(Tablas(base)) : \A c \in Rango(Columnas(t)) :
        EsColumnaUnica(c) =>
            \A a, b \in FilasConClave(base, t, c) : a[c] = b[c] => a = b

C9_MatriculasNoRepetidas ==
    [][Len(generadas') > Len(generadas) =>
        \A i \in (DOMAIN generadas') \ (DOMAIN generadas) :
            generadas'[i] \notin {e.matricula : e \in almacen["escuela"]["estudiantes"]}]_vars

SinEgresado(e) == ~\E g \in almacen["escuela"]["egresados"] : g.estudiante_id = e.id

\* C10: one estudiantes_a_egresados pass inserts exactly one egresados row for
\* every student that matches all criteria and has none, sets its status to
\* Egresado and writes exactly one registros_migrados row exitoso for it; the
\* students that do not match are untouched.
C10_PromocionDeCoincidentes ==
    [][(PasoDeRutina("estudiantes_a_egresados") /\ ~llamada'.exc) =>
        \A e \in almacen["escuela"]["estudiantes"] :
            IF CoincideEstudiante(e, DictGet(llamada.cfg, "criterios", [ninguno |-> 0]))
            THEN SinEgresado(e) =>
                /\ Cardinality({g \in almacen'["escuela"]["egresados"] : g.estudiante_id = e.id}) = 1
                /\ [e EXCEPT !.estado_estudiante = "Egresado"] \in almacen'["escuela"]["estudiantes"]
                /\ Cardinality({j \in DOMAIN registros' \ DOMAIN registros :
                        /\ registros'[j].registro_origen_id = e.id
                        /\ registros'[j].migracion_id = llamada.id
                        /\ registros'[j].estado = "exitoso"}) = 1
            ELSE e \in almacen'["escuela"]["estudiantes"]]_vars

EstadosTerminales == {"completada", "fallida"}

\* C11: a job row or a registros_migrados row that exists in the control store
\* exists in every later state: the job row keeps its id and, once sealed, its
\* content; the registros_migrados row keeps its content.  This holds across
\* jobs, syncs and a new construction of the system.
C11_FilasPermanentes ==
    [][ /\ \A i \in DOMAIN migraciones :
              /\ i \in DOMAIN migraciones'
              /\ migraciones[i].estado \in EstadosTerminales => migraciones'[i] = migraciones[i]
        /\ \A j \in DOMAIN registros :
              /\ j \in DOMAIN registros'
              /\ registros'[j] = registros[j] ]_vars

C13_SinEscriturasPendientes ==
    llamada.pc = "creada" => \A b \in DOMAIN almacen : almacen[b] = confirmado[b]

\* C14: in every state, a state tracker with db_inicializada true means the
\* component has a structurally valid local store it can use: the migration
\* system an open control store, the aspirants manager a local file that
\* holds the primary table.
C14_InicializadaImplicaAlmacen ==
    /\ estadoMig.db_inicializada => "migracion" \in conexiones
    /\ estadoAsp.db_inicializada => VerificarEstructuraBasica(disco, db_local_temp)

\* the step is a pull or push that reached the transport and met a failure of
\* it: connect returned false, there was no SFTP client, or the transfer raised
FalloDeTransporte ==
    LET f == ultimaOp'.fallo
        v == ultimaOp'.verificacion
    IN  \/ /\ EsLlamada("sincronizar_desde_remoto")
           /\ \/ f \in {"conectar", "sftp", "get"}
              \/ f \in {"crear_conectar", "crear_sftp", "crear_put"}
                    /\ v.aspirantes \in {"ausente", "vacio"}
        \/ /\ EsLlamada("sincronizar_hacia_remoto")
           /\ f \in {"conectar", "sftp", "put"}
           /\ v.aspirantes # "sin_copia"
        \/ /\ EsLlamada("sincronizar_bases_datos")
           /\ f \in {"conectar", "sftp"} \cup Rango(BasesSincronizadas)
        \/ /\ EsLlamada("subir_base_datos")
           /\ f \in {"conectar", "sftp", "put"}
           /\ \A x \in DOMAIN v : v[x] # "sin_copia"

OperacionesDeSync ==
    {"sincronizar_desde_remoto", "sincronizar_hacia_remoto", "sincronizar_bases_datos",
     "subir_base_datos"}

\* the state tracker of the component that made the last call
EstadoDe(op, asp, mig) ==
    IF op \in {"sincronizar_desde_remoto", "sincronizar_hacia_remoto"} THEN asp ELSE mig

\* C15: every pull or push that fails because of a transport error reports
\* failure and leaves the state tracker of its component with ssh_conectado
\* false and ssh_error set.
C15_FalloDeTransporteRegistrado ==
    [][ FalloDeTransporte
            => /\ ~ultimaOp'.exito
               /\ ~EstadoDe(ultimaOp'.op, estadoAsp', estadoMig').ssh_conectado
               /\ EstadoDe(ultimaOp'.op, estadoAsp', estadoMig').ssh_error # "" ]_vars

\* C16: a pull or push that meets a transport failure is attempted again up to
\* RETRY_ATTEMPTS times: when the failure lasts, the call reports failure after
\* exactly that many attempts, and no call makes more attempts than that.
C16_ReintentosHastaElLimite ==
    [][ /\ (\E op \in OperacionesDeSync : EsLlamada(op)) => ultimaOp'.intentos <= RETRY_ATTEMPTS
        /\ (FalloDeTransporte /\ ~ultimaOp'.exito) => ultimaOp'.intentos = RETRY_ATTEMPTS ]_vars

\* the stores whose connection the routine of a job reads or writes
BasesObjetivo(tipo, cfg) ==
    CASE tipo = "estudiantes_a_egresados" -> {"escuela"}
      [] tipo = "aspirantes_a_estudiantes" -> {"aspirantes", "escuela"}
      [] tipo = "limpiar_duplicados" -> Rango(DictGet(cfg, "bases", <<"escuela">>))
      [] tipo = "consolidar_bases" ->
            Rango(DictGet(cfg, "bases_origen", <<"aspirantes", "estudiantes", "egresados">>))
      [] OTHER -> {}

\* the job rows en_progreso whose job targets the store
EnProgresoSobre(tabla, base) ==
    {i \in DOMAIN tabla :
        /\ tabla[i].estado = "en_progreso"
        /\ base \in BasesObjetivo(tabla[i].tipo_migracion, tabla[i].configuracion)}

\* C17: a pull never replaces the local file of a store while a job on that
\* store is en_progreso.
C17_SinPullDuranteTrabajo ==
    [][ EsLlamada("sincronizar_bases_datos")
            => \A b \in DOMAIN ultimaOp'.verificacion :
                    ultimaOp'.verificacion[b] = "ok" => EnProgresoSobre(migraciones, b) = {} ]_vars

\* C18: two jobs that target the same store are never en_progreso at the same
\* time.
C18_UnTrabajoPorAlmacen ==
    \A b \in DOMAIN almacen : Cardinality(EnProgresoSobre(migraciones, b)) <= 1

\* C19: ensuring the schema of the local file a pull downloaded: when the
\* primary table was absent the file afterwards holds the full schema (tables,
\* indexes and configuration rows); when it was present the file is the
\* downloaded one, unchanged; and a second call right after leaves the file as
\* the first left it.
C19_EsquemaIdempotente ==
    [][ (EsLlamada("sincronizar_desde_remoto") /\ ultimaOp'.exito)
            => LET local == Leer(disco', db_local_temp')
                   v == ultimaOp'.verificacion.aspirantes
               IN /\ v = "sin_tabla" => (local.tabla /\ local.completa)
                  /\ v = "ok" => local = Leer(remoto, RutaRemota("aspirantes"))
                  /\ v \in {"sin_tabla", "ok"}
                        => InicializarEstructuraDb(disco', db_local_temp') = disco' ]_vars

\* the step is a call of conectar
LlamadaAConectar == ssh'.n = ssh.n + 1

\* C20: conectar called while a healthy session exists (both handles set, the
\* transport active) returns true and opens no session: the SSH and SFTP
\* handles after the call are the ones before it.
C20_ReusaSesionActiva ==
    [][ (LlamadaAConectar /\ VerificarConexionActiva(ssh))
            => /\ ssh'.ret
               /\ ssh'.cliente = ssh.cliente
               /\ ssh'.sftp = ssh.sftp
               /\ ssh'.abiertas = ssh.abiertas
               /\ ssh'.activo ]_vars

\* conectar was called twice in a row on one session, which it opened and reused
C20_Testigo ==
    /\ ssh.n > 1
    /\ ssh.abiertas = 1
    /\ ssh.cliente = 1
    /\ ssh.sftp = 1
    /\ ssh.activo
    /\ ssh.ret

\* the step is a call of guardar_plantilla_migracion
EsGuardado == EsLlamada("guardar_plantilla_migracion")

\* the templates the listing returns under a name
ConNombre(tabla, nombre) == {p \in ObtenerPlantillasMigracion(tabla) : p.nombre = nombre}

\* C21: after any sequence of guardar_plantilla_migracion calls the store holds
\* at most one template per name; a save leaves under its name exactly one
\* template, carrying the kind, configuration and description of that save,
\* and no step changes the template of a name that was not saved by it
C21_UnaPlantillaPorNombre ==
    [][ /\ \A i, j \in DOMAIN plantillas' :
              plantillas'[i].nombre = plantillas'[j].nombre => i = j
        /\ (EsGuardado /\ ultimaOp'.exito) =>
              /\ Cardinality(ConNombre(plantillas', ultimaOp'.base)) = 1
              /\ \A p \in ConNombre(plantillas', ultimaOp'.base) :
                    /\ p.tipo_migracion = ultimaOp'.tipo
                    /\ p.configuracion = ultimaOp'.cfg
                    /\ p.descripcion = ultimaOp'.descripcion
        /\ \A nombre \in NombresDePlantilla \cup {"consolidar_bases_completo"} :
              (EsGuardado /\ ultimaOp'.exito /\ ultimaOp'.base = nombre)
                \/ LET campos(p) == <<p.tipo_migracion, p.configuracion, p.descripcion>>
                   IN {campos(p) : p \in ConNombre(plantillas', nombre)}
                        = {campos(p) : p \in ConNombre(plantillas, nombre)} ]_vars

\* a name saved before is saved again with another kind, configuration and
\* description, and its template carries the new ones
C21_Testigo ==
    /\ ultimaOp.op = "guardar_plantilla_migracion"
    /\ ultimaOp.exito
    /\ ultimaOp.n = 2
    /\ ultimaOp.base = "cierre_de_ciclo"
    /\ Len(plantillas) = 3
    /\ plantillas[3].fecha_actualizacion > plantillas[3].fecha_creacion
    /\ plantillas[3].tipo_migracion = "consolidar_bases"
    /\ plantillas[3].descripcion = ""
    /\ ultimaOp.tipo = "consolidar_bases"

OperacionesDelEstado ==
    {"marcar_db_inicializada", "marcar_sincronizacion", "set_ssh_conectado",
     "registrar_migracion", "registrar_backup"}

\* the step is one of the five operations of the tracker
EsMutacion == ultimaOp'.n = ultimaOp.n + 1 /\ ultimaOp'.op \in OperacionesDelEstado

\* C22: when a state-mutating operation of the tracker returns, the persisted
\* document equals the state in memory: a tracker built then loads that state
C22_DocumentoIgualAlEstado ==
    [][ EsMutacion => CargarEstado(documento').estado = estadoMig' ]_vars

\* the step builds a tracker
EsCarga == proceso'.arranques = proceso.arranques + 1 /\ ultimaOp'.op = "_cargar_estado"

\* no state file in either directory, or the file the loader opens is not JSON
DocumentoAusenteOIlegible(doc) ==
    \/ doc.temp.clase = "ilegible"
    \/ doc.temp.clase = "ausente" /\ doc.cwd.clase \in {"ausente", "ilegible"}

\* C23: a tracker built while the state document is absent or unreadable
\* starts in the zero-state (not initialised, no last synchronisation, not
\* connected, no error, no backups, no succeeded, failed or total-duration
\* count), and building it does not raise
C23_EstadoCeroSinDocumento ==
    [][ (EsCarga /\ DocumentoAusenteOIlegible(documento)) =>
            /\ ultimaOp'.exito
            /\ ~estadoMig'.db_inicializada
            /\ estadoMig'.fecha_inicializacion = -1
            /\ estadoMig'.ultima_sincronizacion = -1
            /\ ~estadoMig'.ssh_conectado
            /\ estadoMig'.ssh_error = ""
            /\ estadoMig'.backups_realizados = 0
            /\ estadoMig'.exitosas = 0
            /\ estadoMig'.fallidas = 0
            /\ estadoMig'.total_tiempo = 0 ]_vars

\* a process that had counted a job left a cut state file, and the tracker of
\* the next process is in the zero-state
C23_Testigo ==
    /\ ultimaOp.op = "_cargar_estado"
    /\ ultimaOp.exito
    /\ ultimaOp.n = 2
    /\ proceso.arranques = 2
    /\ documento.temp.clase = "ilegible"
    /\ documento.cwd.clase = "json"
    /\ JsonLoads(documento.cwd.estado).exitosas = 1
    /\ estadoMig = EstadoPorDefecto

\* the step is a push called while the local working copy does not exist
PushSinCopiaLocal ==
    \/ /\ EsLlamada("sincronizar_hacia_remoto")
       /\ (db_local_temp = NoRuta \/ ~Existe(disco, db_local_temp))
    \/ /\ EsLlamada("subir_base_datos")
       /\ ~Existe(disco, ArchivoLocal(ultimaOp'.base))

\* C25: a push called when no local working copy exists reports failure and
\* does nothing on the remote host (no rename, no backup, no upload), and the
\* time of the last synchronisation and the count of backups stay as they were
C25_PushSinCopiaNoTocaRemoto ==
    [][ PushSinCopiaLocal =>
            /\ ~ultimaOp'.exito
            /\ remoto' = remoto
            /\ estadoAsp'.ultima_sincronizacion = estadoAsp.ultima_sincronizacion
            /\ estadoMig'.ultima_sincronizacion = estadoMig.ultima_sincronizacion
            /\ estadoAsp'.backups_realizados = estadoAsp.backups_realizados ]_vars

\* the aspirants push was called with the network up, automatic backups on and
\* a remote file to rename, and found no local copy
C25_Testigo ==
    /\ ultimaOp.op = "sincronizar_hacia_remoto"
    /\ ultimaOp.fallo = "ninguno"
    /\ ultimaOp.verificacion.aspirantes = "sin_copia"
    /\ ~ultimaOp.exito
    /\ config.auto_backup
    /\ Existe(remoto, RutaRemota("aspirantes"))
    /\ db_local_temp = NoRuta

\* the source records a promote pass selects, as the set of their ids
Seleccionados(tipo, cfg, alm) ==
    LET criterios == DictGet(cfg, "criterios", [ninguno |-> 0])
    IN IF tipo = "estudiantes_a_egresados"
       THEN {e.id : e \in {x \in alm["escuela"]["estudiantes"] : CoincideEstudiante(x, criterios)}}
       ELSE {a.id : a \in {x \in alm["aspirantes"]["aspirantes"] : CoincideAspirante(x, criterios)}}

\* the registros_migrados rows a step appended
FilasNuevas == DOMAIN registros' \ DOMAIN registros

\* the selected records of the pass whose processing raised: the pass wrote no
\* exitoso row for them and did not skip them
Levantaron(tipo) ==
    {x \in Seleccionados(tipo, llamada.cfg, almacen) :
        /\ ~\E j \in FilasNuevas :
                registros'[j].registro_origen_id = x /\ registros'[j].estado = "exitoso"
        /\ ~(tipo = "estudiantes_a_egresados"
                /\ \E g \in almacen["escuela"]["egresados"] : g.estudiante_id = x)}

\* C26: in a promote pass every record whose processing raises gets exactly one
\* registros_migrados row fallido of the job, the failed count of the result
\* is the number of those records, and the pass goes on: the rows of the
\* records that follow are written, in the order of the source query (by id)
C26_FalloPorRegistro ==
    [][ \A tipo \in TiposDePromocion :
          (PasoDeRutina(tipo) /\ ~llamada'.exc) =>
            /\ \A x \in Levantaron(tipo) :
                  Cardinality({j \in FilasNuevas :
                        /\ registros'[j].registro_origen_id = x
                        /\ registros'[j].migracion_id = llamada.id
                        /\ registros'[j].estado = "fallido"}) = 1
            /\ llamada'.res.fallidos = Cardinality(Levantaron(tipo))
            /\ Cardinality({j \in FilasNuevas : registros'[j].estado = "fallido"})
                    = Cardinality(Levantaron(tipo))
            /\ \A j, k \in FilasNuevas :
                  j < k => registros'[j].registro_origen_id < registros'[k].registro_origen_id
      ]_vars

\* a pass over four students has returned: student 3 was skipped, the other
\* three raised, and each has its row fallido, in the order of their ids
C26_Testigo ==
    /\ llamada.pc = "ejecutada"
    /\ llamada.tipo = "estudiantes_a_egresados"
    /\ ~llamada.exc
    /\ llamada.res.total = 4
    /\ llamada.res.fallidos = 3
    /\ \E j \in DOMAIN registros :
        /\ j + 2 \in DOMAIN registros
        /\ \A k \in j..(j + 2) :
                registros[k].migracion_id = llamada.id /\ registros[k].estado = "fallido"
        /\ registros[j].registro_origen_id = 1
        /\ registros[j + 1].registro_origen_id = 2
        /\ registros[j + 2].registro_origen_id = 4

\* C27: a pull marks the tracker (time of the last synchronisation) only after
\* a store file has been downloaded and verified: a pull in which every
\* download failed or failed verification leaves the time as it was
C27_MarcaSoloTrasVerificar ==
    [][ /\ (/\ EsLlamada("sincronizar_bases_datos")
            /\ \A b \in DOMAIN ultimaOp'.verificacion : ultimaOp'.verificacion[b] # "ok")
           => estadoMig'.ultima_sincronizacion = estadoMig.ultima_sincronizacion
        /\ (/\ EsLlamada("sincronizar_desde_remoto")
            /\ ultimaOp'.verificacion.aspirantes \notin {"ok", "sin_tabla"})
           => estadoAsp'.ultima_sincronizacion = estadoAsp.ultima_sincronizacion ]_vars

\* the rows of a table that share the non-NULL value v in the key column c
Grupo(filas, c, v) == {r \in filas : r[c] = v}

\* C28: of every group of rows that share a natural-key value when a
\* limpiar_duplicados pass starts, exactly one row is left when the pass ends,
\* and it is the most recently created row of the group (the row with the
\* highest id in a table without fecha_creacion), whatever the other key
\* columns of the table made the pass delete
C28_UnSobrevivientePorGrupo ==
    [][ (PasoDeRutina("limpiar_duplicados") /\ ~llamada'.exc) =>
          \A b \in BasesLimpiadas(llamada.cfg) : \A t \in Rango(Tablas(b)) :
          \A c \in {x \in Rango(Columnas(t)) : EsColumnaUnica(x)} :
          \A v \in {r[c] : r \in almacen[b][t]} :
            LET grupo == Grupo(almacen[b][t], c, v)
                quedan == grupo \cap almacen'[b][t]
            IN (~EsNulo(c, v) /\ Cardinality(grupo) > 1) =>
                 /\ Cardinality(quedan) = 1
                 /\ \A s \in quedan : \A r \in grupo :
                        IF TieneFechaCreacion(t) THEN s.fecha_creacion >= r.fecha_creacion
                        ELSE s.id >= r.id ]_vars

\* the rows a step removed from the tables of the stores a job cleans, each as
\* <<store, table, id>>
Borradas ==
    UNION {UNION {{<<b, t, r.id>> : r \in almacen[b][t] \ almacen'[b][t]} :
                    t \in Rango(Tablas(b))} :
            b \in BasesLimpiadas(llamada.cfg)}

\* C29: in a limpiar_duplicados pass the rows deleted from the stores are the
\* rows logged for the job: every deleted row has exactly one registros_migrados
\* row exitoso of the job with its id, its table and a key column and value
\* the row had, every row logged by the pass is of a deleted row, and the
\* count the pass returns is the number of deleted rows
C29_BorradasIgualRegistradas ==
    [][ (PasoDeRutina("limpiar_duplicados") /\ ~llamada'.exc) =>
          /\ \A d \in Borradas :
                /\ Cardinality({j \in FilasNuevas :
                        /\ registros'[j].tabla_origen = d[2]
                        /\ registros'[j].registro_origen_id = d[3]}) = 1
                /\ \A j \in FilasNuevas :
                        (registros'[j].tabla_origen = d[2] /\ registros'[j].registro_origen_id = d[3])
                        => /\ registros'[j].migracion_id = llamada.id
                           /\ registros'[j].estado = "exitoso"
                           /\ registros'[j].datos_origen.razon = "duplicado"
                           /\ \E r \in almacen[d[1]][d[2]] :
                                /\ r.id = d[3]
                                /\ r[registros'[j].datos_origen.campo]
                                        = registros'[j].datos_origen.valor
          /\ \A j \in FilasNuevas :
                \E d \in Borradas :
                    registros'[j].tabla_origen = d[2] /\ registros'[j].registro_origen_id = d[3]
          /\ llamada'.res.duplicados_eliminados = Cardinality(Borradas) ]_vars

\* a pass has deleted rows of two tables, for two different key columns, and
\* the job has one row for each
C29_Testigo ==
    /\ llamada.pc = "ejecutada"
    /\ llamada.tipo = "limpiar_duplicados"
    /\ ~llamada.exc
    /\ llamada.res.duplicados_eliminados = 3
    /\ Cardinality({j \in DOMAIN registros : registros[j].migracion_id = llamada.id}) = 3
    /\ \E j, k \in DOMAIN registros :
        /\ registros[j].migracion_id = llamada.id /\ registros[k].migracion_id = llamada.id
        /\ registros[j].tabla_origen = "estudiantes" /\ registros[j].datos_origen.campo = "rfc"
        /\ registros[k].tabla_origen = "inscritos"
        /\ registros[k].datos_origen.campo = "estudiante_id"

\* the students that are the destination rows of an applicant: the rows the
\* check of lines 721-725 looks for
EstudiantesDe(a, ests) ==
    {e \in ests : \/ (a.curp # 0 /\ e.curp = a.curp)
                  \/ (a.matricula_aspirante # 0 /\ a.matricula_aspirante # <<>>
                        /\ e.matricula = a.matricula_aspirante)}

EgresadosDe(e, egrs) == {g \in egrs : g.estudiante_id = e.id}

CopiaDescargada == Leer(disco', db_local_temp')

\* C31: a pull that downloads a file without the expected schema creates the
\* baseline schema and succeeds; when that creation of the schema itself
\* fails, the pull reports failure and marks the store neither initialised
\* nor synchronised
C31_FalloDeEsquemaFallaElPull ==
    [][ (/\ EsLlamada("sincronizar_desde_remoto")
         /\ ultimaOp'.verificacion.aspirantes = "sin_tabla")
            => IF ultimaOp'.fallo = "crear_estructura"
               THEN /\ ~ultimaOp'.exito
                    /\ estadoAsp'.db_inicializada = estadoAsp.db_inicializada
                    /\ estadoAsp'.ultima_sincronizacion = estadoAsp.ultima_sincronizacion
               ELSE ultimaOp'.exito /\ CopiaDescargada.tabla ]_vars

\* the backup step of sincronizar_hacia_remoto was run and failed: the rename
\* raised, the remote file was missing or the backup name was taken
RespaldoFallidoAsp ==
    /\ EsLlamada("sincronizar_hacia_remoto")
    /\ Existe(disco, db_local_temp)
    /\ config.auto_backup
    /\ \/ ultimaOp'.fallo = "rename"
       \/ /\ ultimaOp'.fallo = "ninguno"
          /\ \/ ~Existe(remoto, RutaRemota("aspirantes"))
             \/ Existe(remoto, Respaldo(RutaRemota("aspirantes"), reloj))

\* the backup step of subir_base_datos was run and failed
RespaldoFallidoMig ==
    /\ EsLlamada("subir_base_datos")
    /\ Existe(disco, ArchivoLocal(ultimaOp'.base))
    /\ \/ ultimaOp'.fallo = "get"
       \/ ultimaOp'.fallo = "ninguno" /\ ~Existe(remoto, RutaRemota(ultimaOp'.base))

\* C32: a push whose backup step fails is not aborted: the local file is
\* uploaded to the original remote path and the push reports success; the
\* counter of backups goes up only in a push whose backup step succeeded
C32_RespaldoFallidoNoAborta ==
    [][ /\ RespaldoFallidoAsp
            => /\ ultimaOp'.exito
               /\ Leer(remoto', RutaRemota("aspirantes")) = disco[db_local_temp]
               /\ estadoAsp'.backups_realizados = estadoAsp.backups_realizados
        /\ RespaldoFallidoMig
            => /\ ultimaOp'.exito
               /\ Leer(remoto', RutaRemota(ultimaOp'.base)) = disco[ArchivoLocal(ultimaOp'.base)]
        /\ estadoAsp'.backups_realizados # estadoAsp.backups_realizados
            => /\ EsLlamada("sincronizar_hacia_remoto")
               /\ estadoAsp'.backups_realizados = estadoAsp.backups_realizados + 1
               /\ ultimaOp'.fallo # "rename"
               /\ Existe(remoto, RutaRemota("aspirantes"))
               /\ Leer(remoto', Respaldo(RutaRemota("aspirantes"), reloj))
                      = remoto[RutaRemota("aspirantes")]
        /\ estadoMig'.backups_realizados = estadoMig.backups_realizados ]_vars

\* a push of the aspirants store whose rename failed has uploaded the working copy
C32_Testigo ==
    /\ ultimaOp.op = "sincronizar_hacia_remoto"
    /\ ultimaOp.fallo = "rename"
    /\ ultimaOp.exito
    /\ config.auto_backup
    /\ estadoAsp.backups_realizados = 0
    /\ Leer(remoto, RutaRemota("aspirantes")) = Leer(disco, db_local_temp)

\* the directory the target path of the new store lies in
DirectorioDelDestino == Resolver(Dirname(alta.destino))

\* C33: _crear_directorio_remoto_recursivo terminates for every path and
\* creates the missing directories bottom-up: a directory is created when its
\* parent exists, what the server held is left as it was, and when the new
\* store is uploaded for the first time the directory of the target path exists
C33_DirectoriosAntesDeSubir ==
    /\ [][ creados' # creados
              => LET c == creados'[Len(creados')]
                 IN /\ creados' = Append(creados, c)
                    /\ ~ExisteEnArbol(arbol, c)
                    /\ EsDirectorio(arbol, PadreDe(c))
                    /\ arbol'.dirs = arbol.dirs \cup {c} ]_vars
    /\ [][ alta.fase # "sin_configurar"
              => (arbol.dirs \subseteq arbol'.dirs /\ arbol.files \subseteq arbol'.files) ]_vars
    /\ [][ (alta.fase # "fin" /\ alta'.fase = "fin")
              => EsDirectorio(arbol, DirectorioDelDestino) ]_vars
    /\ (pila # <<>>) ~> (pila = <<>>)

\* the step is a use of the session: a transfer or a remote command
EsUso ==
    /\ ultimaOp'.n = ultimaOp.n + 1
    /\ ultimaOp'.op \in {"obtener_sftp", "ejecutar_comando_remoto"}

\* C34: when the health check of the held session fails, the next use of the
\* transport opens a new session before it issues a command or a transfer,
\* and no command or transfer is issued on a session whose health check
\* failed: what is issued goes to the current client over a live transport
C34_NingunUsoDeSesionCaida ==
    [][ (EsUso /\ ultimaOp'.manejador # 0)
            => /\ ultimaOp'.manejador = ssh'.cliente
               /\ ssh'.activo
               /\ ~VerificarConexionActiva(ssh)
                    => (ssh'.abiertas = ssh.abiertas + 1
                        /\ ultimaOp'.manejador = ssh'.abiertas) ]_vars

\* the job rows sealed with the given state
Selladas(estado) == {i \in DOMAIN migraciones : migraciones[i].estado = estado}

\* C35: after any sequence of ejecutar_migracion calls from the zero-state the
\* counters of the tracker agree with the job table: exitosas is the number of
\* rows sealed completada and fallidas the number of rows sealed fallida, the
\* calls rejected for an invalid kind included
C35_ContadoresIgualesATabla ==
    llamada.pc = "inactiva"
        => /\ estadoMig.exitosas = Cardinality(Selladas("completada"))
           /\ estadoMig.fallidas = Cardinality(Selladas("fallida"))

\* C36: when an ejecutar_migracion call of a supported kind returns or raises,
\* the job row it created is completada or fallida, so that no call leaves its
\* own row en_progreso; a call that created no row, as the one with a kind
\* outside the list, leaves the job table as it was
C36_FilaPropiaTerminal ==
    [][ /\ (llamada.pc # "inactiva" /\ llamada'.pc = "inactiva")
            => /\ llamada.tipo \in TIPOS_MIGRACION
               /\ migraciones'[llamada.id].estado \in EstadosTerminales
        /\ llamada'.pc = "inactiva"
            => \A i \in DOMAIN migraciones' : migraciones'[i].estado \in EstadosTerminales
        /\ (llamada.pc = "inactiva" /\ llamada'.pc = "inactiva")
            => migraciones' = migraciones
        /\ (llamada.pc = "inactiva" /\ llamada'.pc # "inactiva")
            => /\ llamada'.tipo \in TIPOS_MIGRACION
               /\ migraciones' = Append(migraciones, FilaMigracion(llamada'.tipo, llamada'.cfg))
               /\ llamada'.id = Len(migraciones') ]_vars

\* a call of an unimplemented kind raised and one of another kind returned,
\* both rows sealed, after a call with a kind outside the list
C36_Testigo ==
    /\ llamada.pc = "inactiva"
    /\ Len(migraciones) >= 2
    /\ \E i, j \in DOMAIN migraciones :
        /\ migraciones[i].tipo_migracion = "egresados_a_contratados"
        /\ migraciones[i].estado = "fallida"
        /\ migraciones[j].estado = "completada"
    /\ estadoMig.fallidas > Cardinality(Selladas("fallida"))

\* C37: in the aspirants store, after any sequence of
\* actualizar_estatus_aspirante and asignar_matricula calls every aspirant
\* whose estatus is 'Matriculado' has a matricula_asignada, 'Matriculado' is
\* reached from 'Aprobado' only, and asignar_matricula on an aspirant that is
\* missing or not 'Aprobado' returns False and changes nothing
C37_MatriculadoConMatricula ==
    [][ /\ \A f \in DOMAIN aspirantesDb'.filas :
            /\ aspirantesDb'.filas[f].estatus = "Matriculado"
                  => aspirantesDb'.filas[f].matricula_asignada # ""
            /\ (/\ aspirantesDb'.filas[f].estatus = "Matriculado"
                /\ aspirantesDb.filas[f].estatus # "Matriculado")
                  => aspirantesDb.filas[f].estatus = "Aprobado"
        /\ (/\ EsLlamada("asignar_matricula")
            /\ \/ ultimaOp'.folio \notin DOMAIN aspirantesDb.filas
               \/ aspirantesDb.filas[ultimaOp'.folio].estatus # "Aprobado")
              => (~ultimaOp'.exito /\ aspirantesDb' = aspirantesDb /\ estadoAsp' = estadoAsp)
      ]_vars

\* the step is a crear_backup call that wrote a backup and returned True
BackupCreado ==
    /\ EsLlamada("crear_backup")
    /\ ultimaOp'.exito
    /\ ultimaOp'.creado # SinBackup

\* the backups the step removed
BackupsBorrados ==
    ((DOMAIN respaldos.archivos) \cup {ultimaOp'.creado}) \ DOMAIN respaldos'.archivos

\* C38: after every successful crear_backup the backup directory holds at most
\* max_backups files named escuela_backup_*, the backup just created is among
\* them, and only the oldest backups were removed
C38_QuedanLosMasRecientes ==
    [][ BackupCreado
            => /\ Cardinality(DOMAIN respaldos'.archivos) <= max_backups
               /\ ultimaOp'.creado \in DOMAIN respaldos'.archivos
               /\ \A r \in BackupsBorrados : \A k \in DOMAIN respaldos'.archivos :
                    r.ts < k.ts ]_vars
====
